---------------------------- MODULE Spec2Model ----------------------------
(***************************************************************************)
(* pyqwikswitch: the QSUSB device store (QSDevices), the value codec      *)
(* (_legacy_status), the command dispatcher (QSUsb.async_set_qs_value)    *)
(* and the listen loop (QSUsb.listen_loop) as a state machine.            *)
(*                                                                         *)
(* Strings that the code inspects character by character (the 'val' of a  *)
(* packet) are sequences of one-character strings.  A field that a JSON   *)
(* object does not carry is the value NoField.                            *)
(***************************************************************************)
EXTENDS Integers, Sequences, FiniteSets, TLC

VARIABLES dim_adj, devices, setTasks, running, listenTasks, tasks,
          cbCalls, lastOp, cbListen, cbRaised, received, ncalls,
          _running, _queue, threads

vars == <<dim_adj, devices, setTasks, running, listenTasks, tasks,
          cbCalls, lastOp, cbListen, cbRaised, received, ncalls,
          _running, _queue, threads>>

storeVars == <<dim_adj, devices, setTasks>>
listenVars == <<running, listenTasks, tasks, cbListen, cbRaised, received>>
\* threaded.QSUsb: the flag, every Queue that listen() made, the threads
threadVars == <<_running, _queue, threads>>

NoField == "<absent>"

(***************************************************************************)
(* Arithmetic helpers: Python's round() of a quotient (ties to even).     *)
(***************************************************************************)
Abs(x) == IF x < 0 THEN -x ELSE x

Min(x, y) == IF x < y THEN x ELSE y

Max(x, y) == IF x > y THEN x ELSE y

\* floor(n / d) for d > 0 and any integer n
FloorDiv(n, d) == IF n >= 0 THEN n \div d ELSE -((-n + d - 1) \div d)

\* round(n / d) for d > 0: nearest integer, a tie goes to the even neighbour
Round(n, d) ==
    LET f == FloorDiv(n, d)
        r == n - f * d
    IN  IF 2 * r > d THEN f + 1
        ELSE IF 2 * r < d THEN f
        ELSE IF f % 2 = 0 THEN f ELSE f + 1

\* round(sqrt(p)) for an integer p >= 0 (sqrt(p) is never a tie)
RoundSqrt(p) == CHOOSE k \in 0..(p + 1) : k * k - k < p + (IF k = 0 THEN 1 ELSE 0) /\ p <= k * k + k

_MAX == 255

(***************************************************************************)
(* Value codec: _legacy_status                                            *)
(***************************************************************************)
HexDigits == <<"0", "1", "2", "3", "4", "5", "6", "7", "8", "9",
               "a", "b", "c", "d", "e", "f">>

Lower == <<"a", "b", "c", "d", "e", "f", "n", "o", "z">>

Upper == <<"A", "B", "C", "D", "E", "F", "N", "O", "Z">>

Digits == {"0", "1", "2", "3", "4", "5", "6", "7", "8", "9"}

\* str.upper() of one character
UpperChar(c) ==
    IF \E i \in 1..Len(Lower) : Lower[i] = c
    THEN Upper[CHOOSE i \in 1..Len(Lower) : Lower[i] = c]
    ELSE c

\* str.upper()
StrUpper(s) == [i \in 1..Len(s) |-> UpperChar(s[i])]

\* s[i:j] with Python's 0-based, clamped slice bounds
Slice(s, i, j) ==
    LET lo == Min(i, Len(s))
        hi == Min(j, Len(s))
    IN  IF hi <= lo THEN <<>> ELSE SubSeq(s, lo + 1, hi)

\* s.find(sub) >= 0
Contains(s, sub) ==
    \E i \in 0..(Len(s) - Len(sub)) : Slice(s, i, i + Len(sub)) = sub

IsHexChar(c) == \E i \in 1..16 : HexDigits[i] = c \/ UpperChar(HexDigits[i]) = c

HexCharVal(c) == (CHOOSE i \in 1..16 : HexDigits[i] = c \/ UpperChar(HexDigits[i]) = c) - 1

\* int(s, 16) with ValueError mapped to 0, as the try/except around it does
\* (for strings without sign, blank or underscore characters)
HexOrZero(s) ==
    IF Len(s) = 2 /\ IsHexChar(s[1]) /\ IsHexChar(s[2])
    THEN 16 * HexCharVal(s[1]) + HexCharVal(s[2])
    ELSE 0

\* str.isdigit() for ASCII strings
IsDigit(s) == Len(s) > 0 /\ \A i \in 1..Len(s) : s[i] \in Digits

DigitVal(c) == HexCharVal(c)

\* int(s) of a string of decimal digits
RECURSIVE DecInt(_)
DecInt(s) ==
    IF Len(s) = 0 THEN 0
    ELSE 10 * DecInt(SubSeq(s, 1, Len(s) - 1)) + DigitVal(s[Len(s)])

\* round(((120 - val) / 120) * 100) in IEEE double arithmetic: the product is
\* an exact tie mathematically for val = 51 and val = 189 but lands just
\* inside the tie in floating point
RoundLed(val) ==
    IF val = 51 THEN 57
    ELSE IF val = 189 THEN -57
    ELSE Round((120 - val) * 100, 120)

\* Mutant: the percent rule caps its result at 100
_legacy_status_PercentCapped(stat) ==
    LET hd == Slice(stat, 0, 2)
        ooo == Slice(stat, 4, 5)
        val == HexOrZero(Slice(stat, 4, Len(stat)))
    IN  IF (hd = <<"3", "0">> \/ hd = <<"4", "7">>) /\ ooo = <<"0">> THEN 0
        ELSE IF (hd = <<"3", "0">> \/ hd = <<"4", "7">>) /\ ooo = <<"8">> THEN 100
        ELSE IF stat = <<"7", "e">> THEN 0
        ELSE IF stat = <<"7", "f">> THEN 100
        ELSE IF Len(stat) = 6 /\ hd = <<"0", "1">> THEN Round((125 - val) * 100, 125)
        ELSE IF Len(stat) = 6 /\ hd = <<"0", "2">> THEN (IF val = 127 THEN 100 ELSE 0)
        ELSE IF Len(stat) = 6 /\ hd = <<"2", "8">> THEN
            (IF Slice(stat, 2, 4) = <<"0", "1">> /\ Slice(stat, 4, 6) = <<"7", "8">>
             THEN 0 ELSE RoundLed(val))
        ELSE IF Contains(StrUpper(stat), <<"O", "N">>) THEN 100
        ELSE IF Len(stat) = 0 \/ Contains(StrUpper(stat), <<"O", "F", "F">>) THEN 0
        ELSE IF Len(stat) > 0 /\ stat[Len(stat)] = "%" /\ IsDigit(Slice(stat, 0, Len(stat) - 1))
             THEN Min(DecInt(Slice(stat, 0, Len(stat) - 1)), 100)
        ELSE -1

\* Mutant: the ON/OFF rules are tried before every other rule
_legacy_status_OnOffFirst(stat) ==
    LET hd == Slice(stat, 0, 2)
        ooo == Slice(stat, 4, 5)
        val == HexOrZero(Slice(stat, 4, Len(stat)))
    IN  IF Contains(StrUpper(stat), <<"O", "N">>) THEN 100
        ELSE IF Len(stat) = 0 \/ Contains(StrUpper(stat), <<"O", "F", "F">>) THEN 0
        ELSE IF (hd = <<"3", "0">> \/ hd = <<"4", "7">>) /\ ooo = <<"0">> THEN 0
        ELSE IF (hd = <<"3", "0">> \/ hd = <<"4", "7">>) /\ ooo = <<"8">> THEN 100
        ELSE IF stat = <<"7", "e">> THEN 0
        ELSE IF stat = <<"7", "f">> THEN 100
        ELSE IF Len(stat) = 6 /\ hd = <<"0", "1">> THEN Round((125 - val) * 100, 125)
        ELSE IF Len(stat) = 6 /\ hd = <<"0", "2">> THEN (IF val = 127 THEN 100 ELSE 0)
        ELSE IF Len(stat) = 6 /\ hd = <<"2", "8">> THEN
            (IF Slice(stat, 2, 4) = <<"0", "1">> /\ Slice(stat, 4, 6) = <<"7", "8">>
             THEN 0 ELSE RoundLed(val))
        ELSE IF Len(stat) > 0 /\ stat[Len(stat)] = "%" /\ IsDigit(Slice(stat, 0, Len(stat) - 1))
             THEN DecInt(Slice(stat, 0, Len(stat) - 1))
        ELSE -1

_legacy_status(stat) ==
    LET hd == Slice(stat, 0, 2)
        ooo == Slice(stat, 4, 5)
        val == HexOrZero(Slice(stat, 4, Len(stat)))
    IN  IF (hd = <<"3", "0">> \/ hd = <<"4", "7">>) /\ ooo = <<"0">> THEN 0
        ELSE IF (hd = <<"3", "0">> \/ hd = <<"4", "7">>) /\ ooo = <<"8">> THEN 100
        ELSE IF stat = <<"7", "e">> THEN 0
        ELSE IF stat = <<"7", "f">> THEN 100
        ELSE IF Len(stat) = 6 /\ hd = <<"0", "1">> THEN Round((125 - val) * 100, 125)
        ELSE IF Len(stat) = 6 /\ hd = <<"0", "2">> THEN (IF val = 127 THEN 100 ELSE 0)
        ELSE IF Len(stat) = 6 /\ hd = <<"2", "8">> THEN
            (IF Slice(stat, 2, 4) = <<"0", "1">> /\ Slice(stat, 4, 6) = <<"7", "8">>
             THEN 0 ELSE RoundLed(val))
        ELSE IF Contains(StrUpper(stat), <<"O", "N">>) THEN 100
        ELSE IF Len(stat) = 0 \/ Contains(StrUpper(stat), <<"O", "F", "F">>) THEN 0
        ELSE IF Len(stat) > 0 /\ stat[Len(stat)] = "%" /\ IsDigit(Slice(stat, 0, Len(stat) - 1))
             THEN DecInt(Slice(stat, 0, Len(stat) - 1))
        ELSE -1

\* The 'val' strings the hub reports in this model
ON == <<"O", "N">>

Pct50 == <<"5", "0", "%">>

OldDim7f == <<"0", "1", "0", "0", "7", "f">>

\* The status of a humidity/temperature sensor (the example of line 63): no
\* rule of _legacy_status matches it
HumVal == <<"2", "d", "0", "c", "0", "0", "0", "0", "2", "a", "0", "0", "0", "0">>

Vals == {ON, Pct50, OldDim7f, HumVal}

\* The status "h%" of a percentage h of 0..999, as str(h) + "%" writes it
Percent(h) ==
    IF h < 10 THEN <<HexDigits[h + 1], "%">>
    ELSE IF h < 100 THEN <<HexDigits[(h \div 10) + 1], HexDigits[(h % 10) + 1], "%">>
    ELSE <<HexDigits[(h \div 100) + 1], HexDigits[((h \div 10) % 10) + 1],
           HexDigits[(h % 10) + 1], "%">>

\* The statuses that packets of the model carry
StatusStrings == Vals \cup {Percent(h) : h \in 0..100}

\* _legacy_status on the strings of the model, evaluated once
LegacyStatus == [stat \in StatusStrings |-> _legacy_status(stat)]

(***************************************************************************)
(* Device store: QSDev, QSDevices                                         *)
(***************************************************************************)
\* QSDev.__attrs_post_init__: the kind comes from the 'type' tag of the packet
\* the record is built from
QSType(tag) ==
    IF tag = "rel" THEN "relay"
    ELSE IF tag = "dim" THEN "dimmer"
    ELSE IF tag = "hum" THEN "humidity_temperature"
    ELSE "unknown"

QSDev(data) == [data |-> data, qstype |-> QSType(data.type), value |-> -5]

is_dimmer(dev) == dev.qstype = "dimmer"

\* dim_adj is a float; the model writes it as the fraction num/den
Adj(num, den) == [num |-> num, den |-> den]

\* math.pow(x, dim_adj) raises ValueError: a negative base with an exponent
\* that is not an integer
PowRaises(x, adj) == x < 0 /\ adj.den # 1

\* round(math.pow(x, dim_adj)) for dim_adj in {1, 2} and, when x >= 0, 1/2
CurveForward(x, adj) ==
    IF adj = Adj(1, 1) THEN x
    ELSE IF adj = Adj(2, 1) THEN x * x
    ELSE RoundSqrt(x)

\* round(math.pow(p, 1 / dim_adj)) for p >= 0 and dim_adj in {1, 2, 1/2}
CurveInverse(p, adj) ==
    IF adj = Adj(1, 1) THEN p
    ELSE IF adj = Adj(2, 1) THEN RoundSqrt(p)
    ELSE p * p

\* update_devices, lines 191-192: a dimmer's hub-scale value through the
\* curve, capped at 100 and rescaled to 0.._MAX
ForwardPath(newqs, adj) == Round(Min(CurveForward(newqs, adj), 100) * _MAX, 100)

\* update_devices, lines 188-192: the packet's value on the 0.._MAX scale
Rescaled(dev, val, adj) ==
    LET newqs0 == LegacyStatus[val]
    IN  IF is_dimmer(dev) THEN ForwardPath(newqs0, adj) ELSE Round(newqs0 * _MAX, 100)

\* Mutant: any difference counts as a change
Significant_AnyChange(old, newin) == Abs(old - newin) > 0

\* update_devices, line 193: the change is significant
Significant(old, newin) == Abs(old - newin) > 1

\* Mutant: the kind is derived again from every packet's type tag
UpdatePacket_RetagsKind(st, qspacket, adj) ==
    IF qspacket.id = NoField THEN st
    ELSE
        LET qsid == qspacket.id
            devs1 == IF qsid \in DOMAIN st.devs THEN st.devs
                     ELSE st.devs @@ (qsid :> QSDev(qspacket))
            dev == [devs1[qsid] EXCEPT !.qstype = QSType(qspacket.type)]
            newin == Rescaled(dev, qspacket.val, adj)
        IN  IF Significant(dev.value, newin)
            THEN [devs |-> [devs1 EXCEPT ![qsid] = [dev EXCEPT !.data = qspacket, !.value = newin]],
                  calls |-> Append(st.calls, <<qsid, newin>>), exc |-> st.exc]
            ELSE [devs |-> [devs1 EXCEPT ![qsid] = [dev EXCEPT !.data = qspacket]],
                  calls |-> st.calls, exc |-> st.exc]

\* Mutant: a snapshot packet replaces the store by its own record
UpdatePacket_DropsOthers(st, qspacket, adj) ==
    IF qspacket.id = NoField THEN st
    ELSE
        LET qsid == qspacket.id
            devs1 == IF qsid \in DOMAIN st.devs THEN (qsid :> st.devs[qsid])
                     ELSE (qsid :> QSDev(qspacket))
            dev == devs1[qsid]
            newin == Rescaled(dev, qspacket.val, adj)
        IN  IF Significant(dev.value, newin)
            THEN [devs |-> [devs1 EXCEPT ![qsid] = [dev EXCEPT !.data = qspacket, !.value = newin]],
                  calls |-> Append(st.calls, <<qsid, newin>>), exc |-> st.exc]
            ELSE [devs |-> [devs1 EXCEPT ![qsid] = [dev EXCEPT !.data = qspacket]],
                  calls |-> st.calls, exc |-> st.exc]

\* Mutant: a packet without an id is stored under the missing id
UpdatePacket_KeepsIdless(st, qspacket, adj) ==
    LET qsid == qspacket.id
        devs1 == IF qsid \in DOMAIN st.devs THEN st.devs
                 ELSE st.devs @@ (qsid :> QSDev(qspacket))
        dev == devs1[qsid]
        newin == Rescaled(dev, qspacket.val, adj)
    IN  IF Significant(dev.value, newin)
        THEN [devs |-> [devs1 EXCEPT ![qsid] = [dev EXCEPT !.data = qspacket, !.value = newin]],
              calls |-> Append(st.calls, <<qsid, newin>>), exc |-> st.exc]
        ELSE [devs |-> [devs1 EXCEPT ![qsid] = [dev EXCEPT !.data = qspacket]],
              calls |-> st.calls, exc |-> st.exc]

\* Mutant: the callback of a write is put in front of the earlier ones
UpdatePacket_NotifiesOutOfOrder(st, qspacket, adj) ==
    IF st.exc # "none" THEN st
    ELSE IF qspacket.id = NoField THEN st
    ELSE
        LET qsid == qspacket.id
            devs1 == IF qsid \in DOMAIN st.devs THEN st.devs
                     ELSE st.devs @@ (qsid :> QSDev(qspacket))
            dev == devs1[qsid]
            newin == Rescaled(dev, qspacket.val, adj)
        IN  IF Significant(dev.value, newin)
            THEN [devs |-> [devs1 EXCEPT ![qsid] = [dev EXCEPT !.data = qspacket, !.value = newin]],
                  calls |-> <<<<qsid, newin>>>> \o st.calls, exc |-> st.exc]
            ELSE [devs |-> [devs1 EXCEPT ![qsid] = [dev EXCEPT !.data = qspacket]],
                  calls |-> st.calls, exc |-> st.exc]

\* One iteration of the loop of update_devices on the triple
\* st = [devs |-> the store, calls |-> the cb_value_changed calls so far,
\*       exc |-> the exception that has ended the loop, "none" if none has].
\* math.pow on line 191 raises after line 186 has replaced the record's data.
UpdatePacket(st, qspacket, adj) ==
    IF st.exc # "none" THEN st
    ELSE IF qspacket.id = NoField THEN st
    ELSE
        LET qsid == qspacket.id
            devs1 == IF qsid \in DOMAIN st.devs THEN st.devs
                     ELSE st.devs @@ (qsid :> QSDev(qspacket))
            dev == devs1[qsid]
            newin == Rescaled(dev, qspacket.val, adj)
        IN  IF is_dimmer(dev) /\ PowRaises(LegacyStatus[qspacket.val], adj)
            THEN [devs |-> [devs1 EXCEPT ![qsid] = [dev EXCEPT !.data = qspacket]],
                  calls |-> st.calls, exc |-> "ValueError"]
            ELSE IF Significant(dev.value, newin)
            THEN [devs |-> [devs1 EXCEPT ![qsid] = [dev EXCEPT !.data = qspacket, !.value = newin]],
                  calls |-> Append(st.calls, <<qsid, newin>>), exc |-> st.exc]
            ELSE [devs |-> [devs1 EXCEPT ![qsid] = [dev EXCEPT !.data = qspacket]],
                  calls |-> st.calls, exc |-> st.exc]

\* update_devices starts on the store with no call made and nothing raised
St0(devs) == [devs |-> devs, calls |-> <<>>, exc |-> "none"]

RECURSIVE update_devices(_, _, _)
update_devices(st, batch, adj) ==
    IF batch = <<>> THEN st
    ELSE update_devices(UpdatePacket(st, Head(batch), adj), Tail(batch), adj)

\* Mutant: a dimmer's target is never snapped to _MAX
Clamped_DimmerKeeps(dev, new) ==
    IF is_dimmer(dev) THEN new
    ELSE (IF new > 0 THEN _MAX ELSE 0)

\* set_value, lines 158-161: the target kept for the confirmation
Clamped(dev, new) ==
    IF is_dimmer(dev) THEN (IF new * 10 > _MAX * 9 THEN _MAX ELSE new)
    ELSE (IF new > 0 THEN _MAX ELSE 0)

\* Mutant: the percentage is truncated instead of rounded
Encoded_Truncates(new, adj) == CurveInverse((new * 100) \div _MAX, adj)

\* set_value, line 169: the hub-scale value sent in the set request
Encoded(new, adj) == CurveInverse(Round(new * 100, _MAX), adj)

(***************************************************************************)
(* HTTP transport: what one GET can end in, and QSUsb.get_json            *)
(***************************************************************************)
\* A JSON value: null, an object (with its cmd, data and id fields, NoField
\* when absent) or an array (of packets)
JNull == [t |-> "null", cmd |-> NoField, data |-> NoField, id |-> NoField, items |-> <<>>]

JDict(cmd, data, id) == [t |-> "dict", cmd |-> cmd, data |-> data, id |-> id, items |-> <<>>]

JList(items) == [t |-> "list", cmd |-> NoField, data |-> NoField, id |-> NoField, items |-> items]

\* Python's truth value of a decoded JSON value
Truthy(v) ==
    \/ v.t = "dict" /\ (v.cmd # NoField \/ v.data # NoField \/ v.id # NoField)
    \/ v.t = "list" /\ v.items # <<>>

\* The outcome of one GET: a timeout, a connection failure, a status other
\* than 200, a body that is not JSON, or status 200 with a JSON body
Outcome(kind, body) == [kind |-> kind, body |-> body]

\* Mutant: a timeout is raised as a generic failure
get_json_TimeoutAsError(outcome, exceptions) ==
    IF outcome.kind = "ok" THEN [exc |-> "none", value |-> outcome.body]
    ELSE IF outcome.kind = "status" THEN [exc |-> "none", value |-> JNull]
    ELSE [exc |-> IF exceptions THEN "Exception" ELSE "none", value |-> JNull]

\* Mutant: a connection failure is raised as a timeout
get_json_ErrorAsTimeout(outcome, exceptions) ==
    IF outcome.kind = "ok" THEN [exc |-> "none", value |-> outcome.body]
    ELSE IF outcome.kind = "status" THEN [exc |-> "none", value |-> JNull]
    ELSE IF outcome.kind \in {"timeout", "error"}
         THEN [exc |-> IF exceptions THEN "TimeoutError" ELSE "none", value |-> JNull]
    ELSE [exc |-> IF exceptions THEN "Exception" ELSE "none", value |-> JNull]

\* get_json: the value returned, or the exception raised when exceptions=True
get_json(outcome, exceptions) ==
    IF outcome.kind = "ok" THEN [exc |-> "none", value |-> outcome.body]
    ELSE IF outcome.kind = "status" THEN [exc |-> "none", value |-> JNull]
    ELSE IF outcome.kind = "timeout"
         THEN [exc |-> IF exceptions THEN "TimeoutError" ELSE "none", value |-> JNull]
    ELSE [exc |-> IF exceptions THEN "Exception" ELSE "none", value |-> JNull]

(***************************************************************************)
(* Inputs                                                                  *)
(***************************************************************************)
MaxSetTasks == 1

MaxCalls == 3

MaxBatch == 2

Ids == {"a", "b"}

DimAdjs == {Adj(1, 1), Adj(2, 1)}

Packet(id, type, val) == [id |-> id, type |-> type, val |-> val]

Packets ==
    {Packet(id, type, val) : id \in Ids, type \in {"rel", "dim", NoField}, val \in Vals}
    \cup {Packet(NoField, "rel", ON)}

\* The packets of the store specification
StorePackets ==
    {Packet("a", type, val) : type \in {"rel", "dim"}, val \in {ON, Pct50}}
    \cup {Packet("a", NoField, ON), Packet("b", "dim", Pct50), Packet(NoField, "rel", ON)}

StoreBatches == {<<>>} \cup {<<p>> : p \in StorePackets}

RECURSIVE SeqsUpTo(_, _)
SeqsUpTo(S, n) ==
    IF n = 0 THEN {<<>>}
    ELSE LET shorter == SeqsUpTo(S, n - 1)
         IN  shorter \cup {Append(q, x) : q \in shorter, x \in S}

Batches == SeqsUpTo(Packets, MaxBatch)

Desired == {-1, 127, 255}

SetOutcomes ==
    {Outcome(k, JNull) : k \in {"timeout", "error", "status", "malformed"}}
    \cup {Outcome("ok", b) : b \in {JDict(NoField, NoField, NoField),
                                    JDict(NoField, NoField, "a"),
                                    JDict(NoField, "NO REPLY", "a"),
                                    JDict(NoField, "ON", "a"),
                                    JList(<<Packet("a", "rel", ON)>>)}}

(***************************************************************************)
(* State machine                                                          *)
(***************************************************************************)
Op(op, arg, task, exc) == [op |-> op, arg |-> arg, task |-> task, exc |-> exc]

Init ==
    /\ dim_adj \in DimAdjs
    /\ devices = <<>>
    /\ setTasks = <<>>
    /\ running = FALSE
    /\ listenTasks = <<>>
    /\ tasks = 0
    /\ cbCalls = <<>>
    /\ cbListen = <<>>
    /\ cbRaised = <<>>
    /\ received = <<>>
    /\ ncalls = 0
    /\ _running = FALSE
    /\ _queue = <<>>
    /\ threads = <<>>
    /\ lastOp = Op("init", <<>>, 0, "none")

\* QSDevices.update_devices(batch)
UpdateDevices(batch) ==
    LET r == update_devices(St0(devices), batch, dim_adj)
    IN  /\ ncalls < MaxCalls
        /\ ncalls' = ncalls + 1
        /\ devices' = r.devs
        /\ cbCalls' = r.calls
        /\ lastOp' = Op("update_devices", batch, 0, r.exc)
        /\ UNCHANGED <<dim_adj, setTasks>>
        /\ UNCHANGED listenVars
        /\ UNCHANGED threadVars

\* QSUsb.set_qs_value: create_task(async_set_qs_value(qsid, val, success_cb));
\* new is the value the success closure captured, asked the value that
\* set_value was called with (kept for the record only)
NewSetTask(qsid, val, new, asked) ==
    [qsid |-> qsid, val |-> val, new |-> new, repeat |-> 1, pc |-> "created",
     sent |-> 0, answered |-> 0, calls |-> 0, asked |-> asked]

\* Mutant: set_value writes the target into the record and notifies at once
SetValue_Optimistic(qsid, new) ==
    /\ ncalls < MaxCalls
    /\ ncalls' = ncalls + 1
    /\ UNCHANGED dim_adj
    /\ UNCHANGED listenVars
    /\ UNCHANGED threadVars
    /\ IF qsid \notin DOMAIN devices
       THEN /\ lastOp' = Op("set_value", <<qsid, new>>, 0, "KeyError")
            /\ cbCalls' = <<>>
            /\ UNCHANGED <<setTasks, devices>>
       ELSE IF Max(new, 0) = devices[qsid].value
       THEN /\ lastOp' = Op("set_value", <<qsid, new>>, 0, "none")
            /\ cbCalls' = <<>>
            /\ UNCHANGED <<setTasks, devices>>
       ELSE LET target == Clamped(devices[qsid], Max(new, 0))
            IN  /\ Len(setTasks) < MaxSetTasks
                /\ setTasks' = Append(setTasks, NewSetTask(qsid, Encoded(target, dim_adj), target, new))
                /\ devices' = [devices EXCEPT ![qsid].value = target]
                /\ cbCalls' = <<<<qsid, target>>>>
                /\ lastOp' = Op("set_value", <<qsid, new>>, Len(setTasks) + 1, "none")

\* Mutant: an unknown id is ignored instead of raising KeyError
SetValue_IgnoreUnknown(qsid, new) ==
    /\ ncalls < MaxCalls
    /\ ncalls' = ncalls + 1
    /\ cbCalls' = <<>>
    /\ UNCHANGED <<dim_adj, devices>>
    /\ UNCHANGED listenVars
    /\ UNCHANGED threadVars
    /\ IF qsid \notin DOMAIN devices \/ Max(new, 0) = devices[qsid].value
       THEN /\ lastOp' = Op("set_value", <<qsid, new>>, 0, "none")
            /\ UNCHANGED setTasks
       ELSE LET target == Clamped(devices[qsid], Max(new, 0))
            IN  /\ Len(setTasks) < MaxSetTasks
                /\ setTasks' = Append(setTasks, NewSetTask(qsid, Encoded(target, dim_adj), target, new))
                /\ lastOp' = Op("set_value", <<qsid, new>>, Len(setTasks) + 1, "none")

\* Mutant: no early return when the value is already the desired one
SetValue_NoShortcut(qsid, new) ==
    /\ ncalls < MaxCalls
    /\ ncalls' = ncalls + 1
    /\ cbCalls' = <<>>
    /\ UNCHANGED <<dim_adj, devices>>
    /\ UNCHANGED listenVars
    /\ UNCHANGED threadVars
    /\ IF qsid \notin DOMAIN devices
       THEN /\ lastOp' = Op("set_value", <<qsid, new>>, 0, "KeyError")
            /\ UNCHANGED setTasks
       ELSE LET target == Clamped(devices[qsid], Max(new, 0))
            IN  /\ Len(setTasks) < MaxSetTasks
                /\ setTasks' = Append(setTasks, NewSetTask(qsid, Encoded(target, dim_adj), target, new))
                /\ lastOp' = Op("set_value", <<qsid, new>>, Len(setTasks) + 1, "none")

\* QSDevices.set_value(qsid, new) with cb_set_qsvalue = QSUsb.set_qs_value,
\* while fewer than cap set tasks have been created
SetValueUpTo(qsid, new, cap) ==
    /\ ncalls < MaxCalls
    /\ ncalls' = ncalls + 1
    /\ cbCalls' = <<>>
    /\ UNCHANGED <<dim_adj, devices>>
    /\ UNCHANGED listenVars
    /\ UNCHANGED threadVars
    /\ IF qsid \notin DOMAIN devices
       THEN /\ lastOp' = Op("set_value", <<qsid, new>>, 0, "KeyError")
            /\ UNCHANGED setTasks
       ELSE IF Max(new, 0) = devices[qsid].value
       THEN /\ lastOp' = Op("set_value", <<qsid, new>>, 0, "none")
            /\ UNCHANGED setTasks
       ELSE LET target == Clamped(devices[qsid], Max(new, 0))
            IN  /\ Len(setTasks) < cap
                /\ setTasks' = Append(setTasks, NewSetTask(qsid, Encoded(target, dim_adj), target, new))
                /\ lastOp' = Op("set_value", <<qsid, new>>, Len(setTasks) + 1, "none")

SetValue(qsid, new) == SetValueUpTo(qsid, new, MaxSetTasks)

\* async_set_qs_value, line 159: the response confirms the set
Confirms(set_result) ==
    Truthy(set_result) /\ set_result.data # NoField /\ set_result.data # "NO REPLY"

\* async_set_qs_value, line 159: set_result.get on a value that is no object
GetRaises(set_result) == Truthy(set_result) /\ set_result.t # "dict"

\* The task's first step: attempt 1 sends its request
SetStart(i) ==
    /\ setTasks[i].pc = "created"
    /\ setTasks' = [setTasks EXCEPT ![i].pc = "wait", ![i].sent = 1]
    /\ cbCalls' = <<>>
    /\ lastOp' = Op("set_start", <<>>, i, "none")
    /\ UNCHANGED <<dim_adj, devices, ncalls>>
    /\ UNCHANGED listenVars
    /\ UNCHANGED threadVars

\* Mutant: the loop goes on after a confirmed attempt (no return True)
SetResponse_NoReturn(i, outcome) ==
    LET t == setTasks[i]
        set_result == get_json(outcome, FALSE).value
    IN  /\ t.pc = "wait"
        /\ UNCHANGED <<dim_adj, ncalls>>
        /\ UNCHANGED listenVars
        /\ UNCHANGED threadVars
        /\ lastOp' = Op("set_response", outcome, i, "none")
        /\ IF Truthy(set_result) /\ set_result.t = "dict" /\ Confirms(set_result)
           THEN /\ setTasks' = [setTasks EXCEPT ![i].pc = "sleep", ![i].answered = @ + 1, ![i].calls = @ + 1]
                /\ devices' = [devices EXCEPT ![t.qsid].value = t.new]
                /\ cbCalls' = <<<<t.qsid, t.new>>>>
           ELSE /\ setTasks' = [setTasks EXCEPT ![i].pc = "sleep", ![i].answered = @ + 1]
                /\ cbCalls' = <<>>
                /\ UNCHANGED devices

\* The GET of the current attempt ends in outcome: lines 158-163
SetResponse(i, outcome) ==
    LET t == setTasks[i]
        set_result == get_json(outcome, FALSE).value
    IN  /\ t.pc = "wait"
        /\ UNCHANGED <<dim_adj, ncalls>>
        /\ UNCHANGED listenVars
        /\ UNCHANGED threadVars
        /\ IF GetRaises(set_result)
           THEN /\ setTasks' = [setTasks EXCEPT ![i].pc = "raised", ![i].answered = @ + 1]
                /\ lastOp' = Op("set_response", outcome, i, "AttributeError")
                /\ cbCalls' = <<>>
                /\ UNCHANGED devices
           ELSE IF Confirms(set_result)
           THEN \* success(): lines 163-167
                /\ setTasks' = [setTasks EXCEPT ![i].pc = "true", ![i].answered = @ + 1, ![i].calls = @ + 1]
                /\ devices' = [devices EXCEPT ![t.qsid].value = t.new]
                /\ cbCalls' = <<<<t.qsid, t.new>>>>
                /\ lastOp' = Op("set_response", outcome, i, "none")
           ELSE /\ setTasks' = [setTasks EXCEPT ![i].pc = "sleep", ![i].answered = @ + 1]
                /\ lastOp' = Op("set_response", outcome, i, "none")
                /\ cbCalls' = <<>>
                /\ UNCHANGED devices

\* Mutant: an exhausted command stores its target all the same
SetWake_ApplyOnExhaustion(i) ==
    LET t == setTasks[i]
    IN  /\ t.pc = "sleep"
        /\ setTasks' = IF t.repeat < 5
                       THEN [setTasks EXCEPT ![i].repeat = @ + 1, ![i].pc = "wait", ![i].sent = @ + 1]
                       ELSE [setTasks EXCEPT ![i].pc = "false"]
        /\ devices' = IF t.repeat < 5 THEN devices
                      ELSE [devices EXCEPT ![t.qsid].value = t.new]
        /\ cbCalls' = <<>>
        /\ lastOp' = Op("set_wake", <<>>, i, "none")
        /\ UNCHANGED <<dim_adj, ncalls>>
        /\ UNCHANGED listenVars
        /\ UNCHANGED threadVars

\* asyncio.sleep(0.01 * _repeat) is over: the next attempt sends its request,
\* or the loop is exhausted and the call returns False
SetWake(i) ==
    LET t == setTasks[i]
    IN  /\ t.pc = "sleep"
        /\ setTasks' = IF t.repeat < 5
                       THEN [setTasks EXCEPT ![i].repeat = @ + 1, ![i].pc = "wait", ![i].sent = @ + 1]
                       ELSE [setTasks EXCEPT ![i].pc = "false"]
        /\ cbCalls' = <<>>
        /\ lastOp' = Op("set_wake", <<>>, i, "none")
        /\ UNCHANGED <<dim_adj, devices, ncalls>>
        /\ UNCHANGED listenVars
        /\ UNCHANGED threadVars

NextStore ==
    \/ \E batch \in StoreBatches : UpdateDevices(batch)
    \/ \E qsid \in Ids, new \in Desired : SetValue(qsid, new)
    \/ \E i \in 1..Len(setTasks) : SetStart(i)
    \/ \E i \in 1..Len(setTasks), outcome \in SetOutcomes : SetResponse(i, outcome)
    \/ \E i \in 1..Len(setTasks) : SetWake(i)

SpecStore == Init /\ [][NextStore]_vars

\* Two applications of one snapshot to an empty store
NextTwice ==
    \/ ncalls = 0 /\ \E batch \in Batches : UpdateDevices(batch)
    \/ ncalls = 1 /\ lastOp.op = "update_devices" /\ UpdateDevices(lastOp.arg)

SpecTwice == Init /\ [][NextTwice]_vars

\* The same with a dim_adj that is not an integer: qsusb_factory takes a float
FloatDimAdjs == DimAdjs \cup {Adj(1, 2)}

InitFloat ==
    /\ dim_adj \in FloatDimAdjs
    /\ devices = <<>>
    /\ setTasks = <<>>
    /\ running = FALSE
    /\ listenTasks = <<>>
    /\ tasks = 0
    /\ cbCalls = <<>>
    /\ cbListen = <<>>
    /\ cbRaised = <<>>
    /\ received = <<>>
    /\ ncalls = 0
    /\ _running = FALSE
    /\ _queue = <<>>
    /\ threads = <<>>
    /\ lastOp = Op("init", <<>>, 0, "none")

SpecFloat == InitFloat /\ [][NextTwice]_vars

(***************************************************************************)
(* Several set commands on a store of two dimmers                         *)
(***************************************************************************)
\* The hub does not acknowledge, or acknowledges
TargetOutcomes ==
    {Outcome("ok", JDict(NoField, "NO REPLY", "a")), Outcome("ok", JDict(NoField, "ON", "a"))}

MaxRaceTasks == 2

\* The snapshot that fills the store: dimmers a and b, both at 50%
RaceBatch == <<Packet("a", "dim", Pct50), Packet("b", "dim", Pct50)>>

RaceDesired == {0, _MAX}

NextRace ==
    \/ ncalls = 0 /\ UpdateDevices(RaceBatch)
    \/ ncalls > 0 /\ \E qsid \in Ids, new \in RaceDesired : SetValueUpTo(qsid, new, MaxRaceTasks)
    \/ \E i \in 1..Len(setTasks) : SetStart(i)
    \/ \E i \in 1..Len(setTasks), outcome \in TargetOutcomes : SetResponse(i, outcome)
    \/ \E i \in 1..Len(setTasks) : SetWake(i)

SpecRace == Init /\ [][NextRace]_vars

(***************************************************************************)
(* One set command that is confirmed and then repeated                    *)
(***************************************************************************)
\* One device a of either kind or without a type, on or at 50%
TargetBatches ==
    {<<Packet("a", type, val)>> : type \in {"rel", "dim", NoField}, val \in {ON, Pct50}}

NextRepeat ==
    \/ ncalls = 0 /\ \E batch \in TargetBatches : UpdateDevices(batch)
    \/ ncalls = 1 /\ \E new \in 0.._MAX : SetValueUpTo("a", new, MaxRaceTasks)
    \/ /\ ncalls = 2
       /\ Len(setTasks) = 1
       /\ setTasks[1].pc = "true"
       /\ SetValueUpTo("a", setTasks[1].asked, MaxRaceTasks)
    \/ \E i \in 1..Len(setTasks) : SetStart(i)
    \/ \E i \in 1..Len(setTasks), outcome \in TargetOutcomes : SetResponse(i, outcome)
    \/ \E i \in 1..Len(setTasks) : SetWake(i)

SpecRepeat == Init /\ [][NextRepeat]_vars

(***************************************************************************)
(* One set command that is confirmed and then echoed by a snapshot        *)
(***************************************************************************)
\* The snapshot in which the hub reports for task i's device the percentage
\* that the task's set request carried
EchoBatch(i) ==
    <<Packet(setTasks[i].qsid, devices[setTasks[i].qsid].data.type, Percent(setTasks[i].val))>>

NextEcho ==
    \/ ncalls = 0 /\ \E batch \in TargetBatches : UpdateDevices(batch)
    \/ ncalls = 1 /\ \E new \in 0.._MAX : SetValue("a", new)
    \/ /\ ncalls = 2
       /\ Len(setTasks) = 1
       /\ setTasks[1].pc = "true"
       /\ UpdateDevices(EchoBatch(1))
    \/ \E i \in 1..Len(setTasks) : SetStart(i)
    \/ \E i \in 1..Len(setTasks), outcome \in TargetOutcomes : SetResponse(i, outcome)
    \/ \E i \in 1..Len(setTasks) : SetWake(i)

SpecEcho == Init /\ [][NextEcho]_vars

(***************************************************************************)
(* One set command on a store of one device, for every desired value      *)
(***************************************************************************)
\* Every fixed-point value, and one beyond either end
TargetDesired == -1..(_MAX + 1)

NextTarget ==
    \/ ncalls = 0 /\ \E batch \in TargetBatches : UpdateDevices(batch)
    \/ ncalls = 1 /\ \E new \in TargetDesired : SetValue("a", new)
    \/ \E i \in 1..Len(setTasks) : SetStart(i)
    \/ \E i \in 1..Len(setTasks), outcome \in TargetOutcomes : SetResponse(i, outcome)
    \/ \E i \in 1..Len(setTasks) : SetWake(i)

SpecTarget == Init /\ [][NextTarget]_vars

(***************************************************************************)
(* The snapshot refresh: QSUsb.update_from_devices                        *)
(***************************************************************************)
\* Snapshots of a relay and a dimmer; the dimmer may report a status that
\* _legacy_status does not recognize
RefreshBatches ==
    SeqsUpTo({Packet("a", "rel", ON), Packet("b", "dim", Pct50), Packet("b", "dim", HumVal)},
             MaxBatch)

\* What the GET of the device endpoint can end in
RefreshOutcomes ==
    {Outcome(k, JNull) : k \in {"timeout", "error", "status", "malformed"}}
    \cup {Outcome("ok", JNull), Outcome("ok", JDict(NoField, "ON", "a"))}
    \cup {Outcome("ok", JList(batch)) : batch \in RefreshBatches}

\* QSUsb.update_from_devices(): get_json with exceptions=False, then
\* update_devices when the result is a list
UpdateFromDevices(outcome) ==
    LET res == get_json(outcome, FALSE).value
        r == update_devices(St0(devices), res.items, dim_adj)
    IN  /\ ncalls < MaxCalls
        /\ ncalls' = ncalls + 1
        /\ UNCHANGED <<dim_adj, setTasks>>
        /\ UNCHANGED listenVars
        /\ UNCHANGED threadVars
        /\ IF res.t = "list"
           THEN /\ devices' = r.devs
                /\ cbCalls' = r.calls
                /\ lastOp' = [op |-> "update_from_devices", arg |-> outcome, task |-> 0,
                              exc |-> r.exc, ret |-> (r.exc = "none")]
           ELSE /\ UNCHANGED devices
                /\ cbCalls' = <<>>
                /\ lastOp' = [op |-> "update_from_devices", arg |-> outcome, task |-> 0,
                              exc |-> "none", ret |-> FALSE]

NextRefresh == \E outcome \in RefreshOutcomes : UpdateFromDevices(outcome)

SpecRefresh == InitFloat /\ [][NextRefresh]_vars

(***************************************************************************)
(* The value codec on its own: one call of _legacy_status on a string     *)
(***************************************************************************)
MaxLen == 6

\* Characters that reach the rules on "30"/"47", the 6-character legacy
\* rules and the percent rule
CodecChars == {"0", "1", "3", "8", "%"}

\* Statuses that the hub documents or that the other rules need
CodecExamples ==
    { <<>>, <<"7", "e">>, <<"7", "f">>, <<"O", "N">>, <<"O", "F", "F">>, <<"o", "n">>,
      <<"O", "f", "f">>, <<"x">>, ON, Pct50, OldDim7f, HumVal,
      <<"1", "0", "0", "%">>, <<"9", "9", "9", "%">>, <<"5", "a", "%">>,
      <<"0", "1", "0", "0", "0", "0">>, <<"0", "1", "0", "0", "7", "d">>,
      <<"0", "1", "0", "0", "f", "f">>, <<"0", "1", "0", "0", "z", "z">>,
      <<"0", "2", "0", "0", "7", "f">>, <<"0", "2", "0", "0", "0", "0">>,
      <<"2", "8", "0", "1", "7", "8">>, <<"2", "8", "0", "0", "7", "8">>,
      <<"2", "8", "0", "0", "0", "0">>, <<"2", "8", "0", "0", "3", "3">>,
      <<"2", "8", "0", "0", "f", "f">>,
      <<"3", "0", "0", "0", "8", "0">>, <<"4", "7", "x", "y", "8">>,
      <<"4", "7", "O", "N", "0", "z", "z">>, <<"3", "0", "0", "0", "7", "f">>,
      <<"4", "7", "0", "0", "3", "0", "%">> }

CodecStrings == SeqsUpTo(CodecChars, MaxLen) \cup CodecExamples

\* One call _legacy_status(stat), recorded with the value it returns
Decode(stat) ==
    /\ lastOp' = [op |-> "_legacy_status", arg |-> stat, task |-> 0, exc |-> "none",
                  ret |-> _legacy_status(stat)]
    /\ cbCalls' = <<>>
    /\ UNCHANGED ncalls
    /\ UNCHANGED storeVars
    /\ UNCHANGED listenVars
    /\ UNCHANGED threadVars

\* The call is made once, on the object as constructed
NextCodec == lastOp.op = "init" /\ \E stat \in CodecStrings : Decode(stat)

SpecCodec == Init /\ [][NextCodec]_vars

(***************************************************************************)
(* Listen loop: QSUsb.listen, QSUsb.stop, QSUsb.listen_loop               *)
(*                                                                         *)
(* listenTasks[i] is the i-th task created by listen(): pc is where its   *)
(* coroutine stands ("created": scheduled and not started, "polling":     *)
(* awaiting get_json, "sleeping": awaiting asyncio.sleep(30), "done",     *)
(* "cancelled": cancelled before its first step) and cancel tells that    *)
(* task.cancel() was called on it.  tasks is the index of the task held   *)
(* in self.tasks["listen"], 0 when the dict is empty.  cbListen is the    *)
(* log of the packets the user callback was called with, cbRaised tells   *)
(* for each of these calls whether the callback raised, received is the   *)
(* log of the outcomes of the polls.                                      *)
(***************************************************************************)
MaxListens == 1

MaxPolls == 3

Cmd1 == JDict("STATUS.ACK", "OFF,RX1REL,V50", "a")

Cmd2 == JDict("STATUS.ACK", "ON", "a")

ListenOutcomes ==
    {Outcome(k, JNull) : k \in {"timeout", "error", "status", "malformed"}}
    \cup {Outcome("ok", b) : b \in {Cmd1, Cmd2, JDict(NoField, "ON", "a"),
                                    JList(<<Packet("a", "rel", ON)>>)}}

\* Mutant: every JSON object is taken for a command packet
IsCommandPacket_AnyObject(packet) == packet.t = "dict"

\* listen_loop, line 127: the response is a command packet
IsCommandPacket(packet) == packet.t = "dict" /\ packet.cmd # NoField

\* QSUsb.listen(callback)
Listen ==
    /\ running' = TRUE
    /\ listenTasks' = Append(listenTasks, [pc |-> "created", cancel |-> FALSE])
    /\ tasks' = Len(listenTasks) + 1
    /\ lastOp' = Op("listen", <<>>, Len(listenTasks) + 1, "none")
    /\ cbCalls' = <<>>
    /\ UNCHANGED <<cbListen, cbRaised, received, ncalls>>
    /\ UNCHANGED storeVars
    /\ UNCHANGED threadVars

\* Mutant: stop() looks its task up and fails when listen() never stored one
Stop_RequiresTask ==
    /\ running' = FALSE
    /\ listenTasks' = IF tasks = 0 \/ listenTasks[tasks].pc \in {"done", "cancelled"}
                      THEN listenTasks
                      ELSE [listenTasks EXCEPT ![tasks].cancel = TRUE]
    /\ lastOp' = Op("stop", <<>>, tasks, IF tasks = 0 THEN "KeyError" ELSE "none")
    /\ cbCalls' = <<>>
    /\ UNCHANGED <<tasks, cbListen, cbRaised, received, ncalls>>
    /\ UNCHANGED storeVars
    /\ UNCHANGED threadVars

\* Mutant: stop() clears the flag and cancels nothing
Stop_FlagOnly ==
    /\ running' = FALSE
    /\ listenTasks' = listenTasks
    /\ lastOp' = Op("stop", <<>>, tasks, "none")
    /\ cbCalls' = <<>>
    /\ UNCHANGED <<tasks, cbListen, cbRaised, received, ncalls>>
    /\ UNCHANGED storeVars
    /\ UNCHANGED threadVars

\* Mutant: stop() cancels the task and leaves the flag to the task's exit
Stop_CancelOnly ==
    /\ running' = running
    /\ listenTasks' = IF tasks = 0 \/ listenTasks[tasks].pc \in {"done", "cancelled"}
                      THEN listenTasks
                      ELSE [listenTasks EXCEPT ![tasks].cancel = TRUE]
    /\ lastOp' = Op("stop", <<>>, tasks, "none")
    /\ cbCalls' = <<>>
    /\ UNCHANGED <<tasks, cbListen, cbRaised, received, ncalls>>
    /\ UNCHANGED storeVars
    /\ UNCHANGED threadVars

\* Mutant: stop() also abandons the set commands that have not ended
Stop_CancelsSetTasks ==
    /\ running' = FALSE
    /\ listenTasks' = IF tasks = 0 \/ listenTasks[tasks].pc \in {"done", "cancelled"}
                      THEN listenTasks
                      ELSE [listenTasks EXCEPT ![tasks].cancel = TRUE]
    /\ lastOp' = Op("stop", <<>>, tasks, "none")
    /\ cbCalls' = <<>>
    /\ UNCHANGED <<tasks, cbListen, cbRaised, received, ncalls>>
    /\ UNCHANGED <<dim_adj, devices>>
    /\ UNCHANGED threadVars
    /\ setTasks' = [i \in 1..Len(setTasks) |->
                       IF setTasks[i].pc \in {"created", "wait", "sleep"}
                       THEN [setTasks[i] EXCEPT !.pc = "false"]
                       ELSE setTasks[i]]

\* QSUsb.stop(): task.cancel() does nothing to a task that has finished
Stop ==
    /\ running' = FALSE
    /\ listenTasks' = IF tasks = 0 \/ listenTasks[tasks].pc \in {"done", "cancelled"}
                      THEN listenTasks
                      ELSE [listenTasks EXCEPT ![tasks].cancel = TRUE]
    /\ lastOp' = Op("stop", <<>>, tasks, "none")
    /\ cbCalls' = <<>>
    /\ UNCHANGED <<tasks, cbListen, cbRaised, received, ncalls>>
    /\ UNCHANGED storeVars
    /\ UNCHANGED threadVars

\* The head of the while loop, lines 111-117, reached with the flag run: the
\* next long poll is issued, or the loop ends through the finally clause
LoopTop(i, run) ==
    IF run THEN [listenTasks EXCEPT ![i].pc = "polling"]
    ELSE [listenTasks EXCEPT ![i].pc = "done"]

\* The task's first step.  A task cancelled before it starts never enters
\* the coroutine body, so its finally clause does not run.
ListenStart(i) ==
    /\ listenTasks[i].pc = "created"
    /\ IF listenTasks[i].cancel
       THEN /\ listenTasks' = [listenTasks EXCEPT ![i].pc = "cancelled"]
            /\ UNCHANGED running
       ELSE /\ listenTasks' = LoopTop(i, running)
            /\ running' = running
    /\ lastOp' = Op("listen_start", <<>>, i, "none")
    /\ cbCalls' = <<>>
    /\ UNCHANGED <<tasks, cbListen, cbRaised, received, ncalls>>
    /\ UNCHANGED storeVars
    /\ UNCHANGED threadVars

\* Mutant: an exception of the user callback ends the loop
CallbackReturns_Propagates(i, raises) ==
    IF raises THEN [listenTasks EXCEPT ![i].pc = "done"] ELSE LoopTop(i, running)

\* Lines 129-138: callback(packet) has returned or raised; an Exception is
\* caught and logged, and the loop goes back to its head either way
CallbackReturns(i, raises) == LoopTop(i, running)

\* The long poll of task i ends in outcome: lines 112-140.  raises tells
\* whether the user callback raises an exception when it is invoked.
PollReturns(i, outcome, raises) ==
    LET r == get_json(outcome, TRUE)
    IN  /\ listenTasks[i].pc = "polling"
        /\ ~listenTasks[i].cancel
        /\ received' = Append(received, outcome)
        /\ cbCalls' = <<>>
        /\ UNCHANGED <<tasks, ncalls>>
        /\ UNCHANGED storeVars
        /\ UNCHANGED threadVars
        /\ IF r.exc = "TimeoutError"
           THEN /\ listenTasks' = LoopTop(i, running)
                /\ running' = running
                /\ UNCHANGED <<cbListen, cbRaised>>
                /\ lastOp' = Op("poll_returns", outcome, i, "none")
           ELSE IF r.exc = "Exception"
           THEN /\ listenTasks' = [listenTasks EXCEPT ![i].pc = "sleeping"]
                /\ UNCHANGED <<running, cbListen, cbRaised>>
                /\ lastOp' = Op("poll_returns", outcome, i, "none")
           ELSE /\ listenTasks' = IF IsCommandPacket(r.value)
                                  THEN CallbackReturns(i, raises)
                                  ELSE LoopTop(i, running)
                /\ running' = running
                /\ IF IsCommandPacket(r.value)
                   THEN /\ cbListen' = Append(cbListen, r.value)
                        /\ cbRaised' = Append(cbRaised, raises)
                        /\ lastOp' = Op("poll_returns", outcome, i,
                                        IF raises THEN "callback" ELSE "none")
                   ELSE /\ UNCHANGED <<cbListen, cbRaised>>
                        /\ lastOp' = Op("poll_returns", outcome, i, "none")

\* asyncio.sleep(30) is over: line 125, continue
SleepDone(i) ==
    /\ listenTasks[i].pc = "sleeping"
    /\ ~listenTasks[i].cancel
    /\ listenTasks' = LoopTop(i, running)
    /\ running' = running
    /\ lastOp' = Op("sleep_done", <<>>, i, "none")
    /\ cbCalls' = <<>>
    /\ UNCHANGED <<tasks, cbListen, cbRaised, received, ncalls>>
    /\ UNCHANGED storeVars
    /\ UNCHANGED threadVars

\* CancelledError is thrown into the await the task is suspended in (the
\* step records which one):
\* lines 120-121 or 124, then 141-144
Cancelled(i) ==
    /\ listenTasks[i].pc \in {"polling", "sleeping"}
    /\ listenTasks[i].cancel
    /\ listenTasks' = [listenTasks EXCEPT ![i].pc = "done"]
    /\ running' = FALSE
    /\ lastOp' = Op("cancelled", <<listenTasks[i].pc>>, i, "none")
    /\ cbCalls' = <<>>
    /\ UNCHANGED <<tasks, cbListen, cbRaised, received, ncalls>>
    /\ UNCHANGED storeVars
    /\ UNCHANGED threadVars

NextListen ==
    \/ Len(listenTasks) < MaxListens /\ Listen
    \/ Stop
    \/ \E i \in 1..Len(listenTasks) : ListenStart(i)
    \/ \E i \in 1..Len(listenTasks), outcome \in ListenOutcomes, raises \in BOOLEAN :
           Len(received) < MaxPolls /\ PollReturns(i, outcome, raises)
    \/ \E i \in 1..Len(listenTasks) : SleepDone(i)
    \/ \E i \in 1..Len(listenTasks) : Cancelled(i)

SpecListen == Init /\ [][NextListen]_vars

\* The event loop runs every task that is ready: a created task gets its
\* first step and a cancelled await gets its CancelledError.  Nothing makes
\* the hub answer a poll, so the other steps carry no fairness.
TaskRuns(i) == i <= Len(listenTasks) /\ (ListenStart(i) \/ Cancelled(i))

\* The outcomes that matter to how a loop ends: a command packet, a timeout
\* and a connection failure
StopOutcomes ==
    {Outcome("ok", Cmd1), Outcome("timeout", JNull), Outcome("error", JNull)}

NextListenFair ==
    \/ Len(listenTasks) < MaxListens /\ Listen
    \/ Stop
    \/ \E i \in 1..Len(listenTasks) : ListenStart(i)
    \/ \E i \in 1..Len(listenTasks), outcome \in StopOutcomes :
           Len(received) < MaxPolls /\ PollReturns(i, outcome, FALSE)
    \/ \E i \in 1..Len(listenTasks) : SleepDone(i)
    \/ \E i \in 1..Len(listenTasks) : Cancelled(i)

\* listen() may be called again, after stop() or without it
MaxRestartListens == 2

NextRestart ==
    \/ Len(listenTasks) < MaxRestartListens /\ Listen
    \/ Stop
    \/ \E i \in 1..Len(listenTasks) : ListenStart(i)
    \/ \E i \in 1..Len(listenTasks), outcome \in StopOutcomes :
           Len(received) < MaxPolls /\ PollReturns(i, outcome, FALSE)
    \/ \E i \in 1..Len(listenTasks) : SleepDone(i)
    \/ \E i \in 1..Len(listenTasks) : Cancelled(i)

SpecRestart == Init /\ [][NextRestart]_vars

SpecListenFair ==
    Init /\ [][NextListenFair]_vars /\ \A i \in 1..MaxListens : WF_vars(TaskRuns(i))

(***************************************************************************)
(* The whole client: the store, the command dispatcher and the listen loop *)
(* of one QSUsb object interleaved, over few inputs                        *)
(***************************************************************************)
ClientBatches == {<<>>, <<Packet("a", "rel", ON), Packet("b", "dim", Pct50)>>}

ClientDesired == {0}

ClientSetOutcomes ==
    {Outcome("ok", JDict(NoField, "NO REPLY", "a")), Outcome("ok", JDict(NoField, "ON", "a"))}

MaxClientCalls == 2

MaxClientPolls == 1

NextClient ==
    \/ \E batch \in ClientBatches : ncalls < MaxClientCalls /\ UpdateDevices(batch)
    \/ \E new \in ClientDesired : ncalls < MaxClientCalls /\ SetValue("a", new)
    \/ \E i \in 1..Len(setTasks) : SetStart(i)
    \/ \E i \in 1..Len(setTasks), outcome \in ClientSetOutcomes : SetResponse(i, outcome)
    \/ \E i \in 1..Len(setTasks) : SetWake(i)
    \/ Len(listenTasks) < MaxListens /\ Listen
    \/ Stop
    \/ \E i \in 1..Len(listenTasks) : ListenStart(i)
    \/ \E i \in 1..Len(listenTasks), outcome \in StopOutcomes :
           Len(received) < MaxClientPolls /\ PollReturns(i, outcome, FALSE)
    \/ \E i \in 1..Len(listenTasks) : SleepDone(i)
    \/ \E i \in 1..Len(listenTasks) : Cancelled(i)

SpecClient == Init /\ [][NextClient]_vars

(***************************************************************************)
(* The same client with snapshots that report one device more than once   *)
(***************************************************************************)
OrderBatches ==
    {<<Packet("a", "rel", ON), Packet("b", "dim", Pct50), Packet("a", "rel", Pct50)>>,
     <<Packet("b", "dim", ON), Packet("b", "dim", ON), Packet("a", "rel", Pct50)>>}

\* listen() is called once and its loop receives one response
NextOrder ==
    \/ \E batch \in OrderBatches : ncalls < MaxClientCalls /\ UpdateDevices(batch)
    \/ \E new \in ClientDesired : ncalls < MaxClientCalls /\ SetValue("a", new)
    \/ \E i \in 1..Len(setTasks) : SetStart(i)
    \/ \E i \in 1..Len(setTasks), outcome \in ClientSetOutcomes : SetResponse(i, outcome)
    \/ \E i \in 1..Len(setTasks) : SetWake(i)
    \/ listenTasks = <<>> /\ Listen
    \/ Stop
    \/ \E i \in 1..Len(listenTasks) : ListenStart(i)
    \/ \E i \in 1..Len(listenTasks), outcome \in StopOutcomes :
           received = <<>> /\ PollReturns(i, outcome, FALSE)
    \/ \E i \in 1..Len(listenTasks) : SleepDone(i)
    \/ \E i \in 1..Len(listenTasks) : Cancelled(i)

SpecOrder == Init /\ [][NextOrder]_vars

(***************************************************************************)
(* Properties of listen() called more than once (SpecRestart)              *)
(***************************************************************************)
\* No listen loop is wanted: running is false and the task held in
\* self.tasks, if there is one, has ended or has its cancellation requested.
\* This is the state before the first listen() and the state stop() leaves.
Stopped ==
    /\ ~running
    /\ \/ tasks = 0
       \/ listenTasks[tasks].cancel
       \/ listenTasks[tasks].pc \in {"done", "cancelled"}

\* C34 (as claimed): restart after stop: the loop of the latest listen(),
\* as long as no stop() has asked for its cancellation, polls and keeps
\* running: no step of it takes it to its end, also when an older task
\* unwinds (its finally clause clearing the running flag) around its start.
C34_RestartedLoopKeepsRunning ==
    [][ (/\ lastOp'.task = tasks
         /\ lastOp'.op \in {"listen_start", "poll_returns", "sleep_done"}
         /\ ~listenTasks'[tasks].cancel) =>
            listenTasks'[tasks].pc \in {"polling", "sleeping"}
      ]_vars

\* C35 (as claimed): once stop() has returned, and until the next listen(),
\* the listen callback is not invoked, also not for a response to a long
\* poll that was in flight when stop() was called.
C35_NoCallbackAfterStop ==
    [][ (Stopped /\ lastOp'.op # "listen") => cbListen' = cbListen ]_vars

\* Task i is a started loop that nobody has asked to end
Active(i) == listenTasks[i].pc \in {"polling", "sleeping"} /\ ~listenTasks[i].cancel

\* C36 (as claimed): at most one listen loop is active at any time, and a
\* loop that is active is the one that stop() reaches (the task held in
\* self.tasks).
C36_OneLoopReachableByStop ==
    \A i \in 1..Len(listenTasks) : Active(i) => i = tasks

(***************************************************************************)
(* Properties of what the listen loop does with a response (SpecListen)    *)
(***************************************************************************)
\* C29 (as claimed): an event received by the listen loop is pushed into the
\* device store: after the loop has received a command packet for a device
\* id, the store holds a record for that id.
C29_EventReachesStore ==
    [][ (/\ lastOp'.op = "poll_returns"
         /\ lastOp'.arg.kind = "ok"
         /\ IsCommandPacket(lastOp'.arg.body)
         /\ lastOp'.arg.body.id # NoField) =>
            lastOp'.arg.body.id \in DOMAIN devices'
      ]_vars

\* The long poll completed at the transport level without a recognized
\* packet: a JSON value that is no object with a cmd field, a malformed or
\* empty body, or a status other than 200
Unrecognized(outcome) ==
    \/ outcome.kind \in {"malformed", "status"}
    \/ outcome.kind = "ok" /\ ~(outcome.body.t = "dict" /\ outcome.body.cmd # NoField)

\* C30 (as claimed): a long poll that completes without a recognized packet
\* never ends the loop and never invokes the callback: the loop goes on with
\* the next poll (or ends because stop() has cleared the flag) without
\* entering the connection-failure backoff.
C30_UnrecognizedContinuesAtOnce ==
    [][ (lastOp'.op = "poll_returns" /\ Unrecognized(lastOp'.arg)) =>
            /\ cbListen' = cbListen
            /\ lastOp'.exc = "none"
            /\ listenTasks'[lastOp'.task].pc # "sleeping"
            /\ running => listenTasks'[lastOp'.task].pc = "polling"
      ]_vars

(***************************************************************************)
(* Properties of the order of writes and callbacks (SpecOrder)             *)
(***************************************************************************)
\* The values that the calls report for id, in the order of the calls
ValuesFor(calls, id) ==
    LET F[k \in 0..Len(calls)] ==
            IF k = 0 THEN <<>>
            ELSE IF calls[k][1] = id THEN Append(F[k - 1], calls[k][2])
            ELSE F[k - 1]
    IN  F[Len(calls)]

\* The value of id's record in devs, the initial -5 when there is none yet
ValueIn(devs, id) == IF id \in DOMAIN devs THEN devs[id].value ELSE -5

\* The values written to id's record while update_devices goes through
\* batch, starting on the store devs: at every packet the record's value
\* before and after the packet are compared
RECURSIVE WritesFor(_, _, _, _)
WritesFor(devs, batch, adj, id) ==
    IF batch = <<>> THEN <<>>
    ELSE LET after == update_devices(St0(devs), <<Head(batch)>>, adj).devs
             rest == WritesFor(after, Tail(batch), adj, id)
         IN  IF ValueIn(after, id) # ValueIn(devs, id)
             THEN <<ValueIn(after, id)>> \o rest
             ELSE rest

\* C28: reconciliation is atomic: a call of update_devices is one step, in
\* which for each id the values passed to cb_value_changed are the values
\* written to that id's record, in the order of the writes; the steps of
\* the listen loop and of the set tasks lie before or after it, and none of
\* them writes a value or calls cb_value_changed except a confirmation of a
\* set command, which writes one value and reports that value.
C28_CallbacksInWriteOrder ==
    [][ \A id \in Ids :
          /\ lastOp'.op = "update_devices" =>
                /\ ValuesFor(cbCalls', id) = WritesFor(devices, lastOp'.arg, dim_adj, id)
                /\ ValuesFor(cbCalls', id) # <<>> =>
                      ValueIn(devices', id) = ValuesFor(cbCalls', id)[Len(ValuesFor(cbCalls', id))]
                /\ ValuesFor(cbCalls', id) = <<>> =>
                      ValueIn(devices', id) = ValueIn(devices, id)
          /\ lastOp'.op # "update_devices" =>
                IF /\ lastOp'.op = "set_response"
                   /\ setTasks'[lastOp'.task].pc = "true"
                   /\ setTasks'[lastOp'.task].qsid = id
                THEN ValuesFor(cbCalls', id) = <<ValueIn(devices', id)>>
                ELSE /\ ValuesFor(cbCalls', id) = <<>>
                     /\ ValueIn(devices', id) = ValueIn(devices, id)
      ]_vars

\* C28 witness: one snapshot wrote relay a twice, 255 then 128, with a write
\* of b in between, while a listen task was polling; the callbacks came in
\* that order
C28_Witness ==
    /\ lastOp.op = "update_devices"
    /\ cbCalls = << <<"a", 255>>, <<"b", 128>>, <<"a", 128>> >>
    /\ devices["a"].value = 128
    /\ \E i \in 1..Len(listenTasks) : listenTasks[i].pc = "polling"

(***************************************************************************)
(* Properties of the snapshot refresh (SpecRefresh)                        *)
(***************************************************************************)
\* C33 (as claimed): update_from_devices applies the snapshot and returns
\* True if and only if the device endpoint answered with a JSON list, the
\* empty list included; for every other outcome it returns False, raises
\* nothing, calls no callback and leaves the store unchanged.
C33_RefreshTrueIffList ==
    [][ lastOp'.op = "update_from_devices" =>
          IF lastOp'.arg.kind = "ok" /\ lastOp'.arg.body.t = "list"
          THEN /\ lastOp'.exc = "none"
               /\ lastOp'.ret = TRUE
               /\ \A k \in 1..Len(lastOp'.arg.body.items) :
                     lastOp'.arg.body.items[k].id \in DOMAIN devices'
          ELSE /\ lastOp'.exc = "none"
               /\ lastOp'.ret = FALSE
               /\ cbCalls' = <<>>
               /\ devices' = devices
      ]_vars

(***************************************************************************)
(* Properties of a snapshot that echoes a set command (SpecEcho)           *)
(***************************************************************************)
\* C38: no echo notification after a confirmed set, with dim_adj = 1: when
\* the set command has been confirmed and the record holds its target, a
\* snapshot that reports for that id the percentage that the set request
\* carried calls cb_value_changed for no device and leaves the record's
\* value at the target.
C38_NoEchoAfterConfirmedSet ==
    [][ (/\ lastOp'.op = "update_devices"
         /\ dim_adj = Adj(1, 1)
         /\ Len(setTasks) = 1
         /\ setTasks[1].pc = "true"
         /\ devices[setTasks[1].qsid].value = setTasks[1].new
         /\ lastOp'.arg = EchoBatch(1)) =>
            /\ cbCalls' = <<>>
            /\ devices'[setTasks[1].qsid].value = setTasks[1].new
      ]_vars

\* C38 witness: a dimmer was set to 2, which is sent as 1%; the snapshot
\* reported 1%, which decodes to 3, and the record still holds 2
C38_Witness ==
    /\ lastOp.op = "update_devices"
    /\ dim_adj = Adj(1, 1)
    /\ Len(setTasks) = 1
    /\ setTasks[1].pc = "true"
    /\ setTasks[1].new = 2
    /\ is_dimmer(devices["a"])
    /\ devices["a"].data.val = <<"1", "%">>
    /\ devices["a"].value = 2
    /\ cbCalls = <<>>

(***************************************************************************)
(* Properties of a repeated set command (SpecRepeat)                       *)
(***************************************************************************)
\* C32 (as claimed): set_value is idempotent across a confirmation: when
\* set_value(id, desired) has been confirmed and set_value(id, desired) is
\* called again with the store unchanged in between, the second call
\* creates no request and calls no callback.
C32_RepeatedSetIsNoOp ==
    [][ (/\ lastOp'.op = "set_value"
         /\ Len(setTasks) = 1
         /\ setTasks[1].pc = "true"
         /\ lastOp'.arg = <<setTasks[1].qsid, setTasks[1].asked>>
         /\ devices[setTasks[1].qsid].value = setTasks[1].new) =>
            /\ setTasks' = setTasks
            /\ cbCalls' = <<>>
      ]_vars

(***************************************************************************)
(* Properties of concurrent set commands (SpecRace)                        *)
(***************************************************************************)
\* Task i has sent a request that is not answered yet
InFlight(i) == setTasks[i].pc = "wait"

\* C27 (as claimed): set requests for one device id are serialized: two set
\* commands for the same id never have requests in flight at the same time.
C27_SameIdSerialized ==
    \A i \in 1..Len(setTasks), j \in 1..Len(setTasks) :
        (i < j /\ setTasks[i].qsid = setTasks[j].qsid) => ~(InFlight(i) /\ InFlight(j))

(***************************************************************************)
(* Properties of the target of a set command (SpecTarget)                  *)
(***************************************************************************)
\* C25: the target that set_value hands on is, with the desired value first
\* raised to 0 when negative: for a dimmer 255 when desired > 0.9 * 255 and
\* desired itself otherwise, for a relay or any other kind 255 when
\* desired > 0 and 0 otherwise; a task's target never changes, and a
\* confirmation stores exactly it and passes it to cb_value_changed.
C25_TargetIsClamped ==
    [][ /\ (lastOp'.op = "set_value" /\ lastOp'.task > 0) =>
              LET qsid == lastOp'.arg[1]
                  desired == IF lastOp'.arg[2] < 0 THEN 0 ELSE lastOp'.arg[2]
                  target == setTasks'[lastOp'.task].new
              IN  IF devices[qsid].qstype = "dimmer"
                  THEN target = (IF 10 * desired > 9 * 255 THEN 255 ELSE desired)
                  ELSE target = (IF desired > 0 THEN 255 ELSE 0)
        /\ \A i \in 1..Len(setTasks) :
              /\ i \in 1..Len(setTasks')
              /\ setTasks'[i].new = setTasks[i].new
              /\ (lastOp'.op = "set_response" /\ lastOp'.task = i /\ setTasks'[i].pc = "true") =>
                    /\ devices'[setTasks[i].qsid].value = setTasks[i].new
                    /\ cbCalls' = << <<setTasks[i].qsid, setTasks[i].new>> >>
      ]_vars

\* C25 witness: a dimmer that stood at 50% was asked for more than 0.9 * 255
\* and less than 255, and the confirmation stored 255
C25_Witness ==
    /\ lastOp.op = "set_response"
    /\ Len(setTasks) = 1
    /\ setTasks[1].pc = "true"
    /\ is_dimmer(devices["a"])
    /\ devices["a"].data.val = Pct50
    /\ devices["a"].value = _MAX
    /\ cbCalls = << <<"a", _MAX>> >>

\* C26: round trip of a dimmer with dim_adj = 1: for every target t of
\* 0..255 the hub-scale value that set_value encodes for t, decoded by the
\* forward path of update_devices (curve, cap at 100, rescale), is within 1
\* of t; and so is the value of every request that set_value has made.
C26_RoundTripWithinOne ==
    /\ \A t \in 0.._MAX :
          Abs(ForwardPath(Encoded(t, Adj(1, 1)), Adj(1, 1)) - t) <= 1
    /\ \A i \in 1..Len(setTasks) :
          (dim_adj = Adj(1, 1) /\ is_dimmer(devices[setTasks[i].qsid])) =>
              Abs(ForwardPath(setTasks[i].val, dim_adj) - setTasks[i].new) <= 1

\* C26 witness: target 2 was encoded as 1, which decodes to 3
C26_Witness ==
    /\ dim_adj = Adj(1, 1)
    /\ Len(setTasks) = 1
    /\ is_dimmer(devices[setTasks[1].qsid])
    /\ setTasks[1].new = 2
    /\ setTasks[1].val = 1
    /\ ForwardPath(setTasks[1].val, dim_adj) = 3

(***************************************************************************)
(* The sensor decoders: decode_temperature and decode_humidity            *)
(***************************************************************************)
\* int(s, 16) succeeds (for strings without sign, blank or underscore)
HexParses(s) == Len(s) > 0 /\ \A i \in 1..Len(s) : IsHexChar(s[i])

\* int(s, 16) of a string of hexadecimal digits
RECURSIVE HexInt(_)
HexInt(s) ==
    IF Len(s) = 0 THEN 0
    ELSE 16 * HexInt(SubSeq(s, 1, Len(s) - 1)) + HexCharVal(s[Len(s)])

\* What a decoder call ends in: None, a number, or an exception
SensorNone == [exc |-> "none", none |-> TRUE, v |-> 0]

SensorValue(v) == [exc |-> "none", none |-> FALSE, v |-> v]

SensorRaises == [exc |-> "ValueError", none |-> FALSE, v |-> 0]

\* decode_temperature(packet, channel) with val = str(packet.get("data", "")):
\* round(-46.85 + 175.72 * (temperature / 2^16)); the double arithmetic
\* rounds like the exact quotient for every 16-bit temperature
decode_temperature(val, channel) ==
    IF Len(val) = 12 /\ Slice(val, 0, 2) = <<"3", "4">> /\ channel = 1
    THEN IF ~HexParses(Slice(val, 8, 12)) THEN SensorRaises
         ELSE SensorValue(Round(-4685 * 65536 + 17572 * HexInt(Slice(val, 8, 12)), 6553600))
    ELSE SensorNone

\* Mutant: the humidity is read from the last four characters
decode_humidity_ReadsLastBytes(val, channel) ==
    IF Len(val) = 12 /\ Slice(val, 0, 2) = <<"3", "4">> /\ channel = 1
    THEN IF ~HexParses(Slice(val, 8, 12)) THEN SensorRaises
         ELSE SensorValue(Round(-6 * 65536 + 125 * HexInt(Slice(val, 8, 12)), 65536))
    ELSE SensorNone

\* decode_humidity(packet, channel): round(-6 + 125 * (humidity / 2^16))
\* with humidity = int(val[4:-4], 16)
decode_humidity(val, channel) ==
    IF Len(val) = 12 /\ Slice(val, 0, 2) = <<"3", "4">> /\ channel = 1
    THEN IF ~HexParses(Slice(val, 4, 8)) THEN SensorRaises
         ELSE SensorValue(Round(-6 * 65536 + 125 * HexInt(Slice(val, 4, 8)), 65536))
    ELSE SensorNone

MaxSensorSamples == 48

\* 16-bit readings spread over the whole range, with both ends, the reading
\* at which the humidity is an exact tie (56.5) and a reading of 23 degrees
SensorReadings ==
    {(k * 65535) \div MaxSensorSamples : k \in 0..MaxSensorSamples} \cup {32768, 26051}

\* The 4 hexadecimal characters of a 16-bit value
Hex4(n) ==
    <<HexDigits[(n \div 4096) + 1], HexDigits[((n \div 256) % 16) + 1],
      HexDigits[((n \div 16) % 16) + 1], HexDigits[(n % 16) + 1]>>

\* Payloads of the sensor (tag 34, firmware 00, humidity, temperature), and
\* data fields of other lengths, of other tags, absent, or not hexadecimal
SensorData ==
    {<<"3", "4", "0", "0">> \o Hex4(h) \o Hex4(t) : h \in SensorReadings, t \in SensorReadings}
    \cup { <<>>,
           <<"3", "4", "0", "0", "8", "0", "0", "0", "6", "5", "c">>,
           <<"3", "4", "0", "0", "8", "0", "0", "0", "6", "5", "c", "3", "0">>,
           <<"3", "5", "0", "0", "8", "0", "0", "0", "6", "5", "c", "3">>,
           <<"4", "6", "0", "0", "6", "4">>,
           <<"0", "f", "0", "0", "0", "0", "1", "e">>,
           <<"3", "4", "0", "0", "8", "0", "0", "0", "6", "5", "C", "3">>,
           <<"3", "4", "0", "0", "z", "z", "z", "z", "6", "5", "c", "3">>,
           <<"3", "4", "0", "0", "8", "0", "0", "0", "z", "z", "z", "z">> }

\* One call of a decoder, recorded with what it ends in
DecodeSensor(fn, val, channel) ==
    LET r == IF fn = "decode_temperature" THEN decode_temperature(val, channel)
             ELSE decode_humidity(val, channel)
    IN  /\ lastOp' = [op |-> fn, arg |-> <<val, channel>>, task |-> 0, exc |-> r.exc, ret |-> r]
        /\ cbCalls' = <<>>
        /\ UNCHANGED ncalls
        /\ UNCHANGED storeVars
        /\ UNCHANGED listenVars
        /\ UNCHANGED threadVars

\* The call is made once, on the object as constructed
NextSensor ==
    /\ lastOp.op = "init"
    /\ \E fn \in {"decode_temperature", "decode_humidity"}, val \in SensorData, channel \in {1, 2} :
           DecodeSensor(fn, val, channel)

SpecSensor == Init /\ [][NextSensor]_vars

\* The payload has the sensor's shape: 12 characters behind the tag 34
SensorShape(val) == Len(val) = 12 /\ val[1] = "3" /\ val[2] = "4"

\* The 16-bit value that the hexadecimal characters val[from+1..from+4] spell
Word(val, from) ==
    4096 * HexCharVal(val[from + 1]) + 256 * HexCharVal(val[from + 2])
    + 16 * HexCharVal(val[from + 3]) + HexCharVal(val[from + 4])

\* v is a nearest integer to n / d (d > 0), the even one on a tie
NearestTo(v, n, d) ==
    /\ 2 * Abs(v * d - n) <= d
    /\ 2 * Abs(v * d - n) = d => v % 2 = 0

\* C31: decode_temperature and decode_humidity return None unless the data
\* field has exactly 12 characters, starts with "34" and channel is 1;
\* otherwise (the field being hexadecimal) the temperature is
\* round(-46.85 + 175.72 * T / 65536) with T the value of the last 4
\* characters and the humidity round(-6 + 125 * H / 65536) with H the value
\* of the characters 4..8.
C31_SensorDecoders ==
    lastOp.op \in {"decode_temperature", "decode_humidity"} =>
        LET val == lastOp.arg[1]
            channel == lastOp.arg[2]
            ret == lastOp.ret
        IN  IF ~(SensorShape(val) /\ channel = 1)
            THEN ret.none /\ ret.exc = "none"
            ELSE (\A i \in 5..12 : IsHexChar(val[i])) =>
                    /\ ret.exc = "none"
                    /\ ~ret.none
                    /\ lastOp.op = "decode_temperature" =>
                          NearestTo(ret.v, -4685 * 65536 + 17572 * Word(val, 8), 6553600)
                    /\ lastOp.op = "decode_humidity" =>
                          NearestTo(ret.v, -6 * 65536 + 125 * Word(val, 4), 65536)

\* C31 witness: the payload 3400 8000 65c3 gave the humidity 56 (the tie
\* 56.5 goes to the even neighbour)
C31_Witness ==
    /\ lastOp.op = "decode_humidity"
    /\ lastOp.arg = << <<"3", "4", "0", "0", "8", "0", "0", "0", "6", "5", "c", "3">>, 1 >>
    /\ lastOp.ret = SensorValue(56)

(***************************************************************************)
(* Properties of the value codec (SpecCodec)                               *)
(***************************************************************************)
\* C22 (as claimed): whatever the string, _legacy_status returns an integer
\* of -1..100.
C22_ResultInRange ==
    lastOp.op = "_legacy_status" => lastOp.ret \in -1..100

\* The decimal digits as characters, in order of their values
DecimalChars == <<"0", "1", "2", "3", "4", "5", "6", "7", "8", "9">>

\* s ends in "%" after a non-empty run of decimal digits
IsPercent(s) ==
    /\ Len(s) >= 2
    /\ s[Len(s)] = "%"
    /\ \A i \in 1..(Len(s) - 1) : \E v \in 1..10 : DecimalChars[v] = s[i]

\* The number that the first n characters of s (decimal digits) spell,
\* added up place by place
RECURSIVE PlaceSum(_, _)
PlaceSum(s, n) ==
    IF n = 0 THEN 0
    ELSE PlaceSum(s, n - 1) * 10 + ((CHOOSE v \in 1..10 : DecimalChars[v] = s[n]) - 1)

\* The rules of _legacy_status that come before the percent rule and can
\* match a string of digits and "%": the rule on "30"/"47" (lines 64-70)
\* and the rules on 6 characters behind "01", "02" or "28" (lines 75-86)
EarlierRuleMatches(s) ==
    \/ /\ Len(s) >= 5
       /\ <<s[1], s[2]>> \in {<<"3", "0">>, <<"4", "7">>}
       /\ s[5] \in {"0", "8"}
    \/ /\ Len(s) = 6
       /\ <<s[1], s[2]>> \in {<<"0", "1">>, <<"0", "2">>, <<"2", "8">>}

\* C23 (as claimed): for every string that ends in "%" behind decimal digits
\* only, _legacy_status returns the number the digits spell.
C23_PercentDecodesToPrefix ==
    (lastOp.op = "_legacy_status" /\ IsPercent(lastOp.arg)) =>
        lastOp.ret = PlaceSum(lastOp.arg, Len(lastOp.arg) - 1)

\* C23 (amended): the same for the strings that no earlier rule matches;
\* when one does, the result is that rule's: 0 or 100 for the rule on
\* "30"/"47", 0 or 100 behind "01" or "02" and 0 or the LED formula's
\* value behind "28" (the last two characters are not both hexadecimal
\* digits, so they count as 0)
C23_PercentDecodesToPrefixUnlessEarlierRule ==
    (lastOp.op = "_legacy_status" /\ IsPercent(lastOp.arg)) =>
        IF EarlierRuleMatches(lastOp.arg)
        THEN lastOp.ret \in {0, 100}
        ELSE lastOp.ret = PlaceSum(lastOp.arg, Len(lastOp.arg) - 1)

\* C23 witness: "999%" was decoded to 999
C23_Witness ==
    /\ lastOp.op = "_legacy_status"
    /\ lastOp.arg = <<"9", "9", "9", "%">>
    /\ lastOp.ret = 999

\* C24: the rules apply first-match-wins: "7e" gives 0, "7f" 100, the empty
\* string 0; a string that starts with "30" or "47" gives 100 when its
\* character at index 4 is "8" and 0 when it is "0", whatever its length and
\* its other characters.
C24_FirstMatchWins ==
    lastOp.op = "_legacy_status" =>
        LET stat == lastOp.arg
        IN  /\ stat = <<"7", "e">> => lastOp.ret = 0
            /\ stat = <<"7", "f">> => lastOp.ret = 100
            /\ stat = <<>> => lastOp.ret = 0
            /\ (/\ Len(stat) >= 5
                /\ <<stat[1], stat[2]>> \in {<<"3", "0">>, <<"4", "7">>}) =>
                   /\ stat[5] = "8" => lastOp.ret = 100
                   /\ stat[5] = "0" => lastOp.ret = 0

\* C24 witness: "300080" gave 100 through the first rule
C24_Witness ==
    /\ lastOp.op = "_legacy_status"
    /\ lastOp.arg = <<"3", "0", "0", "0", "8", "0">>
    /\ lastOp.ret = 100

(***************************************************************************)
(* Properties of the listen loop: callback exceptions, timeouts, backoff   *)
(* and stop() (SpecListen)                                                 *)
(***************************************************************************)
\* C11: when the user callback raises while handling a command packet, the
\* loop catches it: the running flag is left as it was, the task neither ends
\* nor backs off but, while running is set, issues the next poll; and every
\* command packet received after a raising callback is still delivered (the
\* callback log and the log of its exceptions grow together, one entry per
\* command packet received).
C11_CallbackExceptionIsCaught ==
    /\ [](Len(cbRaised) = Len(cbListen))
    /\ [][ (lastOp'.op = "poll_returns" /\ lastOp'.exc = "callback") =>
               /\ running' = running
               /\ cbListen' = Append(cbListen, lastOp'.arg.body)
               /\ listenTasks'[lastOp'.task].pc = IF running THEN "polling" ELSE "done"
          ]_vars
    /\ [][ \A i \in 1..Len(listenTasks) :
               (/\ \E k \in 1..Len(cbRaised) : cbRaised[k]
                /\ listenTasks[i].pc = "polling"
                /\ lastOp'.op = "poll_returns" /\ lastOp'.task = i
                /\ lastOp'.arg.kind = "ok"
                /\ lastOp'.arg.body.t = "dict"
                /\ lastOp'.arg.body.cmd # NoField) =>
                   cbListen' = Append(cbListen, lastOp'.arg.body)
          ]_vars

\* C11 witness: the first callback raised, the loop went on polling, and a
\* second command packet was delivered to a callback that returned
C11_Witness ==
    /\ cbRaised = <<TRUE, FALSE>>
    /\ cbListen = <<Cmd1, Cmd2>>
    /\ running
    /\ \E i \in 1..Len(listenTasks) : listenTasks[i].pc = "polling"

\* C12: a long poll that times out invokes no callback and enters no backoff
\* sleep; the task's next action is the next poll when running is still set
\* (and the end of the loop when stop() has cleared it).
C12_TimeoutContinuesAtOnce ==
    [][ (lastOp'.op = "poll_returns" /\ lastOp'.arg.kind = "timeout") =>
           /\ cbListen' = cbListen
           /\ running' = running
           /\ listenTasks'[lastOp'.task].pc # "sleeping"
           /\ listenTasks'[lastOp'.task].pc = IF running THEN "polling" ELSE "done"
      ]_vars

\* C12 witness: a poll timed out and the task is polling again
C12_Witness ==
    /\ lastOp.op = "poll_returns"
    /\ lastOp.arg.kind = "timeout"
    /\ running
    /\ listenTasks[lastOp.task].pc = "polling"
    /\ cbListen = <<>>

\* C13: a long poll that ends in a connection failure puts the task into the
\* backoff sleep without a callback, and a sleeping task leaves the sleep only
\* because the sleep has elapsed or has been cancelled; it is polling again
\* only after the sleep has elapsed.
C13_ConnectionFailureBacksOff ==
    /\ [][ (lastOp'.op = "poll_returns" /\ lastOp'.arg.kind = "error") =>
               /\ cbListen' = cbListen
               /\ listenTasks'[lastOp'.task].pc = "sleeping"
          ]_vars
    /\ [][ \A i \in 1..Len(listenTasks) :
               (listenTasks[i].pc = "sleeping" /\ listenTasks'[i].pc # "sleeping") =>
                   /\ lastOp'.task = i
                   /\ lastOp'.op \in {"sleep_done", "cancelled"}
                   /\ listenTasks'[i].pc = "polling" => lastOp'.op = "sleep_done"
          ]_vars

\* C13 witness: after a connection failure and the whole sleep, the task
\* polls again
C13_Witness ==
    /\ lastOp.op = "sleep_done"
    /\ Len(received) = 1
    /\ received[1].kind = "error"
    /\ listenTasks[lastOp.task].pc = "polling"

\* C14: stop() called while the loop held in self.tasks is in its backoff
\* sleep cancels that sleep; a sleep that has been cancelled is never awaited
\* to its end: the task's only step is the exit through CancelledError and
\* the finally clause, without another poll.
C14_StopCancelsBackoff ==
    /\ [][ (lastOp'.op = "stop" /\ tasks # 0 /\ listenTasks[tasks].pc = "sleeping") =>
               /\ listenTasks'[tasks].cancel
               /\ listenTasks'[tasks].pc = "sleeping"
          ]_vars
    /\ [][ \A i \in 1..Len(listenTasks) :
               (/\ listenTasks[i].pc = "sleeping" /\ listenTasks[i].cancel
                /\ listenTasks'[i] # listenTasks[i]) =>
                   /\ lastOp'.op = "cancelled"
                   /\ listenTasks'[i].pc = "done"
                   /\ received' = received
                   /\ ~running'
          ]_vars

\* C14 witness: the loop was cancelled out of its backoff sleep and has exited
C14_Witness ==
    /\ lastOp.op = "cancelled"
    /\ lastOp.arg = <<"sleeping">>
    /\ received = <<Outcome("error", JNull)>>
    /\ listenTasks[lastOp.task].pc = "done"
    /\ ~running

\* A step by which a task issues a long poll
IssuesPoll(i) ==
    /\ lastOp'.task = i
    /\ lastOp'.op \in {"listen_start", "poll_returns", "sleep_done"}
    /\ listenTasks'[i].pc = "polling"

\* Task i has ended
Ended(i) == i <= Len(listenTasks) /\ listenTasks[i].pc \in {"done", "cancelled"}

\* C15: stop() leaves running false, and running stays false until the next
\* listen(); a task issues a poll only while running is set and its own
\* cancellation has not been requested, so no poll is issued after stop();
\* the loop that stop() was called on ends, and when it ends through its
\* cancellation running is false.
C15_StopEndsLoop ==
    /\ [](lastOp.op = "stop" => ~running)
    /\ [][ (running' /\ ~running) => lastOp'.op = "listen" ]_vars
    /\ [][ \A i \in 1..Len(listenTasks) :
               IssuesPoll(i) => running /\ ~listenTasks[i].cancel ]_vars
    /\ [][ lastOp'.op = "cancelled" => ~running' ]_vars
    /\ \A i \in 1..MaxListens :
           [](lastOp.op = "stop" /\ lastOp.task = i => <>Ended(i))

\* C15 witness: stop() was called with a poll in flight; the poll was
\* cancelled and the task has ended with running false
C15_Witness ==
    /\ lastOp.op = "cancelled"
    /\ lastOp.arg = <<"polling">>
    /\ received = <<Outcome("ok", Cmd1)>>
    /\ listenTasks[lastOp.task].pc = "done"
    /\ listenTasks[lastOp.task].cancel
    /\ ~running

(***************************************************************************)
(* Properties of the whole client (SpecClient)                             *)
(***************************************************************************)
\* C16: the client is Stopped before any listen() and after every stop(), and
\* stays so until the next listen(); a stop() called in that state raises
\* nothing and changes nothing: no task is created, no request is sent, the
\* device store, the set commands, the listen tasks and the (false) running
\* flag are what they were.
C16_StopIsIdempotent ==
    /\ [](lastOp.op \in {"init", "stop"} => Stopped)
    /\ [][ (Stopped /\ lastOp'.op # "listen") => Stopped' ]_vars
    /\ [][ (Stopped /\ lastOp'.op = "stop") =>
               /\ lastOp'.exc = "none"
               /\ ~running'
               /\ cbCalls' = <<>>
               /\ UNCHANGED <<dim_adj, devices, setTasks>>
               /\ UNCHANGED <<running, listenTasks, tasks, cbListen, cbRaised, received>>
          ]_vars

\* C16 witness: a second stop(), called after the first one's cancellation has
\* ended the loop, on a client whose store holds a record
C16_Witness ==
    /\ lastOp.op = "stop"
    /\ lastOp.task # 0
    /\ listenTasks[lastOp.task].cancel
    /\ listenTasks[lastOp.task].pc = "done"
    /\ DOMAIN devices # {}

\* Some step of set task i can be taken
CanStep(i) ==
    \/ ENABLED SetStart(i)
    \/ ENABLED SetWake(i)
    \/ \E outcome \in ClientSetOutcomes : ENABLED SetResponse(i, outcome)

\* C37: stop() does not cancel set commands: the stop() step changes
\* neither the device store nor a set task and calls no callback; a set
\* task that has not ended can always take its next step, stopped or not;
\* it gives up only after 5 attempts; and a confirmation, stopped or not,
\* writes the target to the record and calls cb_value_changed.
C37_StopLeavesSetCommands ==
    /\ [][ lastOp'.op = "stop" =>
              /\ UNCHANGED <<dim_adj, devices, setTasks>>
              /\ cbCalls' = <<>>
         ]_vars
    /\ [](\A i \in 1..Len(setTasks) :
             /\ setTasks[i].pc \in {"created", "wait", "sleep"} => CanStep(i)
             /\ setTasks[i].pc = "false" => setTasks[i].sent = 5)
    /\ [][ \A i \in 1..Len(setTasks) :
              (lastOp'.op = "set_response" /\ lastOp'.task = i /\ setTasks'[i].pc = "true") =>
                  /\ devices'[setTasks[i].qsid].value = setTasks[i].new
                  /\ cbCalls' = << <<setTasks[i].qsid, setTasks[i].new>> >>
         ]_vars

\* C37 witness: stop() was called while a set command waited for the answer
\* to its third attempt, and left it waiting
C37_Witness ==
    /\ lastOp.op = "stop"
    /\ lastOp.task # 0
    /\ Len(setTasks) = 1
    /\ setTasks[1].pc = "wait"
    /\ setTasks[1].sent = 3

(***************************************************************************)
(* Properties of the device store and the command dispatcher (SpecStore)  *)
(***************************************************************************)
Pending(t) == t.pc \in {"created", "wait", "sleep"}

TaskOp == {"set_start", "set_response", "set_wake"}

\* The hub response recorded in lastOp confirms the set
ConfirmingOp(op) == op.op = "set_response" /\ Confirms(get_json(op.arg, FALSE).value)

InCalls(calls, c) == \E k \in 1..Len(calls) : calls[k] = c

\* C1: a record's value is written only by update_devices on its significant
\* change branch (which also notifies) or by the success closure run for a
\* confirming hub response; set_value itself leaves every record and the
\* cb_value_changed callback alone, so the store keeps the old value until
\* the confirmation.
C1_ValueWrittenOnlyByUpdateOrConfirmedSet ==
    [][ /\ \A id \in DOMAIN devices :
              devices'[id].value # devices[id].value =>
                  \/ /\ lastOp'.op = "update_devices"
                     /\ Significant(devices[id].value, devices'[id].value)
                     /\ InCalls(cbCalls', <<id, devices'[id].value>>)
                  \/ /\ ConfirmingOp(lastOp')
                     /\ setTasks[lastOp'.task].qsid = id
                     /\ devices'[id].value = setTasks[lastOp'.task].new
        /\ lastOp'.op = "set_value" => devices' = devices /\ cbCalls' = <<>>
      ]_vars

\* C1 witness: set_value has dispatched a command that is not confirmed yet
\* and the record still holds a value other than the command's target
C1_Witness ==
    \E i \in 1..Len(setTasks) :
        /\ setTasks[i].pc = "wait"
        /\ devices[setTasks[i].qsid].value # setTasks[i].new

\* C2: update_devices on one packet: with old the record's value before (the
\* sentinel -5 for a new record) and scaled the rescaled decoded value, the
\* record takes scaled and cb_value_changed(id, scaled) is called exactly once
\* if abs(old - scaled) > 1; otherwise the value stays and nothing is called.
C2_ChangeSuppression ==
    [][ (lastOp'.op = "update_devices" /\ Len(lastOp'.arg) = 1 /\ lastOp'.arg[1].id # NoField) =>
            LET p == lastOp'.arg[1]
                old == IF p.id \in DOMAIN devices THEN devices[p.id].value ELSE -5
                scaled == Rescaled(devices'[p.id], p.val, dim_adj)
            IN  IF Abs(old - scaled) > 1
                THEN devices'[p.id].value = scaled /\ cbCalls' = << <<p.id, scaled>> >>
                ELSE devices'[p.id].value = old /\ cbCalls' = <<>>
      ]_vars

\* C2 witness: a packet whose rescaled value is exactly 1 away from the stored
\* value has been processed and suppressed
C2_Witness ==
    /\ lastOp.op = "update_devices"
    /\ Len(lastOp.arg) = 1
    /\ lastOp.arg[1].id \in DOMAIN devices
    /\ cbCalls = <<>>
    /\ Abs(devices[lastOp.arg[1].id].value
           - Rescaled(devices[lastOp.arg[1].id], lastOp.arg[1].val, dim_adj)) = 1

\* C4 (as claimed): a command returns True, with its success closure run
\* exactly once, iff an attempt among the first 5 got a confirming response
\* (the 5th included); every other response counts as a non-confirmation,
\* after which the command sleeps and tries again, and after 5 of them it
\* returns False with the closure never run; no closure runs more than once.
C4_ConfirmedIffWithinFiveAttempts ==
    /\ [](\A i \in 1..Len(setTasks) :
            /\ setTasks[i].calls <= 1
            /\ setTasks[i].pc = "true" <=> setTasks[i].calls = 1
            /\ setTasks[i].pc = "true" => setTasks[i].answered \in 1..5
            /\ setTasks[i].pc = "false" => setTasks[i].answered = 5 /\ setTasks[i].calls = 0)
    /\ [][ /\ lastOp'.op = "set_response" =>
                 LET t == lastOp'.task
                 IN  IF ConfirmingOp(lastOp')
                     THEN /\ setTasks'[t].pc = "true"
                          /\ setTasks'[t].calls = setTasks[t].calls + 1
                     ELSE /\ setTasks'[t].pc = "sleep"
                          /\ setTasks'[t].calls = setTasks[t].calls
           /\ lastOp'.op = "set_wake" =>
                 LET t == lastOp'.task
                 IN  setTasks'[t].pc = IF setTasks[t].answered = 5 THEN "false" ELSE "wait"
          ]_vars

\* C5: a command sends at most 5 set requests, has at most one of them
\* unanswered at any time, and sends nothing once an attempt is confirmed.
C5_AtMostFiveSequentialRequests ==
    /\ [](\A i \in 1..Len(setTasks) :
            /\ setTasks[i].sent <= 5
            /\ setTasks[i].sent - setTasks[i].answered \in {0, 1})
    /\ [][ \A i \in 1..Len(setTasks) :
              /\ setTasks'[i].sent > setTasks[i].sent =>
                     setTasks[i].sent = setTasks[i].answered /\ setTasks[i].calls = 0
              /\ setTasks'[i].sent <= setTasks[i].sent + 1
          ]_vars

\* C5 witness: the fifth request of a command is in flight
C5_Witness ==
    \E i \in 1..Len(setTasks) :
        setTasks[i].sent = 5 /\ setTasks[i].answered = 4 /\ setTasks[i].pc = "wait"

\* C6: a command that exhausts its 5 attempts has never run its closure, and
\* no step of it (the set_value call, its requests, its non-confirming
\* responses, its sleeps) touched a record or called cb_value_changed.
C6_ExhaustedCommandLeavesStore ==
    /\ [](\A i \in 1..Len(setTasks) :
            setTasks[i].pc = "false" => setTasks[i].calls = 0 /\ setTasks[i].answered = 5)
    /\ [][ ((lastOp'.op \in TaskOp \/ lastOp'.op = "set_value") /\ ~ConfirmingOp(lastOp')) =>
              devices' = devices /\ cbCalls' = <<>>
          ]_vars

\* C6 witness: a command has returned False
C6_Witness == \E i \in 1..Len(setTasks) : setTasks[i].pc = "false"

\* C7 (as claimed): async_set_qs_value never raises, whatever the attempt's
\* GET ends in
C7_NeverRaises == \A i \in 1..Len(setTasks) : setTasks[i].pc # "raised"

\* C8: set_value on an id that is not in the store raises KeyError, creates
\* no set command, calls no callback and leaves the store as it was.
C8_UnknownIdFails ==
    [][ (lastOp'.op = "set_value" /\ lastOp'.arg[1] \notin DOMAIN devices) =>
            /\ lastOp'.exc = "KeyError"
            /\ setTasks' = setTasks
            /\ devices' = devices
            /\ cbCalls' = <<>>
      ]_vars

\* C8 witness: set_value was called with an id the store does not hold
C8_Witness ==
    /\ lastOp.op = "set_value"
    /\ lastOp.arg[1] \notin DOMAIN devices
    /\ lastOp.exc = "KeyError"

\* C9: set_value with max(desired, 0) equal to the record's value does
\* nothing: no set command is created, no callback runs, the store is as it
\* was.
C9_SameValueIsNoOp ==
    [][ (/\ lastOp'.op = "set_value"
         /\ lastOp'.arg[1] \in DOMAIN devices
         /\ Max(lastOp'.arg[2], 0) = devices[lastOp'.arg[1]].value) =>
            /\ lastOp'.exc = "none"
            /\ setTasks' = setTasks
            /\ devices' = devices
            /\ cbCalls' = <<>>
      ]_vars

\* C9 witness: set_value was called with the value the record already holds
C9_Witness ==
    /\ lastOp.op = "set_value"
    /\ lastOp.arg[1] \in DOMAIN devices
    /\ lastOp.task = 0
    /\ Max(lastOp.arg[2], 0) = devices[lastOp.arg[1]].value

\* The first packet of the batch that carries the id
FirstWith(batch, id) ==
    batch[CHOOSE k \in 1..Len(batch) :
              batch[k].id = id /\ \A j \in 1..(k - 1) : batch[j].id # id]

\* C18: a record's kind is the one its creating packet's type tag stands for
\* (rel, dim, hum; anything else or no tag: unknown), and no step changes the
\* kind of a record that exists: not a later packet with another tag or with
\* none, not set_value, not a confirmation.
C18_KindFixedAtCreation ==
    [][ /\ \A id \in DOMAIN devices :
              id \in DOMAIN devices' /\ devices'[id].qstype = devices[id].qstype
        /\ \A id \in DOMAIN devices' \ DOMAIN devices :
              /\ lastOp'.op = "update_devices"
              /\ devices'[id].qstype =
                     (LET tag == FirstWith(lastOp'.arg, id).type
                      IN  IF tag = "rel" THEN "relay"
                          ELSE IF tag = "dim" THEN "dimmer"
                          ELSE IF tag = "hum" THEN "humidity_temperature"
                          ELSE "unknown")
      ]_vars

\* C18 witness: a record created as a relay has since received a packet
\* without a type tag and a confirmed set command (which wrote the value 0),
\* and is a relay still
C18_Witness ==
    /\ "a" \in DOMAIN devices
    /\ devices["a"].qstype = "relay"
    /\ devices["a"].data.type = NoField
    /\ devices["a"].value = 0
    /\ lastOp.op = "set_response"

(***************************************************************************)
(* Properties of two applications of one snapshot (SpecTwice)             *)
(***************************************************************************)
\* Every packet of the batch carries an id and no two carry the same
DistinctIds(batch) ==
    /\ \A k \in 1..Len(batch) : batch[k].id # NoField
    /\ \A k, l \in 1..Len(batch) : batch[k].id = batch[l].id => k = l

CallsFor(calls, id) == Cardinality({k \in 1..Len(calls) : calls[k][1] = id})

\* C3 (as claimed): a snapshot with distinct ids applied twice to an empty
\* store calls cb_value_changed exactly once per device in total: once in the
\* first application, never in the second.
C3_OneCallPerDeviceInTotal ==
    [][ (/\ ncalls = 1 /\ ncalls' = 2
         /\ lastOp.op = "update_devices" /\ lastOp'.op = "update_devices"
         /\ lastOp'.arg = lastOp.arg
         /\ DistinctIds(lastOp.arg)) =>
            /\ cbCalls' = <<>>
            /\ \A k \in 1..Len(lastOp.arg) : CallsFor(cbCalls, lastOp.arg[k].id) = 1
      ]_vars

\* C19: no step removes an id from the store, whatever the operation (a
\* snapshot that omits the id, an empty snapshot, set_value, a set command's
\* steps, listen(), the loop's steps, stop()); and a snapshot of n packets
\* with distinct ids applied to the empty store leaves exactly n records.
C19_IdsOnlyGrow ==
    /\ [][ DOMAIN devices \subseteq DOMAIN devices' ]_vars
    /\ [][ (/\ lastOp'.op = "update_devices"
            /\ DOMAIN devices = {}
            /\ DistinctIds(lastOp'.arg)) =>
               Cardinality(DOMAIN devices') = Len(lastOp'.arg)
          ]_vars

\* C19 witness: a snapshot of two ids was applied to the empty store, then
\* an empty snapshot, and the store holds both records
C19_Witness ==
    /\ lastOp.op = "update_devices"
    /\ lastOp.arg = <<>>
    /\ DOMAIN devices = {"a", "b"}
    /\ ncalls = 2

\* The packet carries an id
HasId(qspacket) == qspacket.id # NoField

\* C20: update_devices skips a packet without an id: it creates no record
\* for it, and the store and the cb_value_changed calls that the call leaves
\* are those of the same call on the list without its id-less packets, so a
\* list of id-less packets alone changes nothing and calls nothing, and the
\* packets after an id-less one are processed as ever.
C20_IdlessPacketSkipped ==
    [][ lastOp'.op = "update_devices" =>
           LET kept == SelectSeq(lastOp'.arg, HasId)
               r == update_devices(St0(devices), kept, dim_adj)
           IN  /\ devices' = r.devs
               /\ cbCalls' = r.calls
               /\ NoField \notin DOMAIN devices'
               /\ kept = <<>> => devices' = devices /\ cbCalls' = <<>>
      ]_vars

\* C20 witness: the list held an id-less packet and then a packet for id a,
\* whose record was created and whose value was reported
C20_Witness ==
    /\ lastOp.op = "update_devices"
    /\ Len(lastOp.arg) = 2
    /\ lastOp.arg[1].id = NoField
    /\ lastOp.arg[2].id = "a"
    /\ DOMAIN devices = {"a"}
    /\ Len(cbCalls) = 1
    /\ cbCalls[1][1] = "a"

\* The last packet of the batch that carries the id
LastWith(batch, id) ==
    batch[CHOOSE k \in 1..Len(batch) :
              batch[k].id = id /\ \A j \in (k + 1)..Len(batch) : batch[j].id # id]

\* C21 (as claimed): a list in which a packet's val matches no rule (decode
\* result -1, every other val decoding within 0..100) makes update_devices
\* raise nothing, whatever the kinds of the records and whatever dim_adj; the
\* whole list is processed: every id of the list has a record whose data is
\* the last packet the list holds for it.
C21_DecodeFailureNeverRaises ==
    [][ (/\ lastOp'.op = "update_devices"
         /\ \A k \in 1..Len(lastOp'.arg) : LegacyStatus[lastOp'.arg[k].val] \in -1..100
         /\ \E k \in 1..Len(lastOp'.arg) :
               HasId(lastOp'.arg[k]) /\ LegacyStatus[lastOp'.arg[k].val] = -1) =>
            /\ lastOp'.exc = "none"
            /\ \A k \in 1..Len(lastOp'.arg) :
                  HasId(lastOp'.arg[k]) =>
                     /\ lastOp'.arg[k].id \in DOMAIN devices'
                     /\ devices'[lastOp'.arg[k].id].data = LastWith(lastOp'.arg, lastOp'.arg[k].id)
      ]_vars

\* C17 (as claimed): every record's value is an integer of 0.._MAX or the
\* sentinel -5, and a record at -5 has not decoded a packet successfully
\* (the packet it holds, if it was decoded at all, matched no rule).
C17_ValueInRangeOrSentinel ==
    \A id \in DOMAIN devices :
        \/ devices[id].value \in 0.._MAX
        \/ /\ devices[id].value = -5
           /\ LegacyStatus[devices[id].data.val] = -1

(***************************************************************************)
(* Properties of the listen loop (SpecListen)                             *)
(***************************************************************************)
\* The command packets among the responses, in arrival order
RECURSIVE CommandsOf(_)
CommandsOf(log) ==
    IF log = <<>> THEN <<>>
    ELSE LET o == Head(log)
         IN  IF o.kind = "ok" /\ o.body.t = "dict" /\ o.body.cmd # NoField
             THEN <<o.body>> \o CommandsOf(Tail(log))
             ELSE CommandsOf(Tail(log))

\* C10: the callback invocations are exactly the received responses that are
\* objects with a cmd field, once each and in arrival order.
C10_CallbackPerCommandInOrder == cbListen = CommandsOf(received)

\* C10 witness: two command packets, then a timeout, then stop(): the task
\* has ended and the callback saw the two packets in order
C10_Witness ==
    /\ received = <<Outcome("ok", Cmd1), Outcome("ok", Cmd2), Outcome("timeout", JNull)>>
    /\ cbListen = <<Cmd1, Cmd2>>
    /\ Len(listenTasks) = 1
    /\ listenTasks[1].pc = "done"
    /\ listenTasks[1].cancel
    /\ ~running

(***************************************************************************)
(* The threaded client: threaded.QSUsb (listen, stop, _thread_listen,      *)
(* _thread_worker)                                                         *)
(*                                                                         *)
(* _running is self._running.  _queue holds every Queue that listen() has  *)
(* made, the last one being self._queue: items is all that was put on it,  *)
(* head the number of items taken from it, passed the packets that went    *)
(* from it to self._callback_listen.  threads holds the threads in start   *)
(* order: pc is where the thread stands ("head": at the test of its while  *)
(* loop, "polling": in requests.get, "sleeping": in sleep(), "exit": past  *)
(* the loop of _thread_listen, "blocked": in Queue.get, "done"), q is the  *)
(* queue a blocked worker waits on, and stopped tells that stop() was      *)
(* called since the thread was started.                                    *)
(***************************************************************************)
MaxThreadListens == 2

MaxThreadPolls == 1

NewQueue == [items |-> <<>>, head |-> 0, passed |-> <<>>]

NewThread(kind) == [kind |-> kind, pc |-> "head", q |-> 0, stopped |-> FALSE]

\* line 70: the packet that stands for a read timeout
UpdatePacketItem == JDict("update", NoField, NoField)

\* line 78: the empty item
Sentinel == JDict(NoField, NoField, NoField)

\* Queue.put(item) on self._queue
Put(item) == [_queue EXCEPT ![Len(_queue)].items = Append(@, item)]

ThreadOutcomes ==
    {Outcome(k, JNull) : k \in {"timeout", "error", "status", "malformed"}}
    \cup {Outcome("ok", b) : b \in {Cmd1, JDict(NoField, "ON", "a")}}

\* The polls that have returned
RECURSIVE ThreadPolls(_)
ThreadPolls(n) == IF n = 0 THEN 0
                  ELSE ThreadPolls(n - 1)
                       + Cardinality({k \in 1..Len(_queue[n].items) :
                                         _queue[n].items[k] # Sentinel})

\* listen(): nothing happens while the flag is set; otherwise a new queue,
\* the flag, and the two threads
ThreadedListen ==
    /\ IF _running
       THEN /\ lastOp' = [op |-> "threaded.listen", arg |-> <<>>, task |-> 0,
                          exc |-> "none", ret |-> FALSE]
            /\ UNCHANGED threadVars
       ELSE /\ Len(_queue) < MaxThreadListens
            /\ _queue' = Append(_queue, NewQueue)
            /\ _running' = TRUE
            /\ threads' = threads \o <<NewThread("listen"), NewThread("worker")>>
            /\ lastOp' = [op |-> "threaded.listen", arg |-> <<>>, task |-> 0,
                          exc |-> "none", ret |-> TRUE]
    /\ cbCalls' = <<>>
    /\ UNCHANGED ncalls
    /\ UNCHANGED storeVars
    /\ UNCHANGED listenVars

\* stop(): the flag, nothing else
ThreadedStop ==
    /\ _running' = FALSE
    /\ threads' = [i \in 1..Len(threads) |-> [threads[i] EXCEPT !.stopped = TRUE]]
    /\ lastOp' = Op("threaded.stop", <<>>, 0, "none")
    /\ cbCalls' = <<>>
    /\ UNCHANGED _queue
    /\ UNCHANGED ncalls
    /\ UNCHANGED storeVars
    /\ UNCHANGED listenVars

\* _thread_listen, line 57: the test of the while loop
ListenThreadHead(i) ==
    /\ i \in 1..Len(threads)
    /\ threads[i].kind = "listen"
    /\ threads[i].pc = "head"
    /\ threads' = [threads EXCEPT ![i].pc = IF _running THEN "polling" ELSE "exit"]
    /\ lastOp' = Op("_thread_listen.head", <<>>, i, "none")
    /\ cbCalls' = <<>>
    /\ UNCHANGED <<_running, _queue>>
    /\ UNCHANGED ncalls
    /\ UNCHANGED storeVars
    /\ UNCHANGED listenVars

\* _thread_listen, lines 59-76: requests.get returns or raises
ListenThreadPoll(i, outcome) ==
    /\ i \in 1..Len(threads)
    /\ threads[i].kind = "listen"
    /\ threads[i].pc = "polling"
    /\ ~_running \/ ThreadPolls(Len(_queue)) < MaxThreadPolls
    /\ \/ /\ outcome.kind = "ok"
          /\ _queue' = Put(outcome.body)
          /\ threads' = [threads EXCEPT ![i].pc = "head"]
       \/ /\ outcome.kind = "timeout"
          /\ _queue' = Put(UpdatePacketItem)
          /\ threads' = [threads EXCEPT ![i].pc = "head"]
       \/ /\ outcome.kind \in {"status", "error", "malformed"}
          /\ threads' = [threads EXCEPT ![i].pc = "sleeping"]
          /\ UNCHANGED _queue
    /\ lastOp' = Op("_thread_listen.get", outcome, i, "none")
    /\ cbCalls' = <<>>
    /\ UNCHANGED _running
    /\ UNCHANGED ncalls
    /\ UNCHANGED storeVars
    /\ UNCHANGED listenVars

\* _thread_listen, lines 65, 73, 76: sleep() returns
ListenThreadWake(i) ==
    /\ i \in 1..Len(threads)
    /\ threads[i].kind = "listen"
    /\ threads[i].pc = "sleeping"
    /\ threads' = [threads EXCEPT ![i].pc = "head"]
    /\ lastOp' = Op("_thread_listen.wake", <<>>, i, "none")
    /\ cbCalls' = <<>>
    /\ UNCHANGED <<_running, _queue>>
    /\ UNCHANGED ncalls
    /\ UNCHANGED storeVars
    /\ UNCHANGED listenVars

\* _thread_listen, line 78: the empty item goes on self._queue
ListenThreadExit(i) ==
    /\ i \in 1..Len(threads)
    /\ threads[i].kind = "listen"
    /\ threads[i].pc = "exit"
    /\ _queue' = Put(Sentinel)
    /\ threads' = [threads EXCEPT ![i].pc = "done"]
    /\ lastOp' = Op("_thread_listen.exit", <<>>, i, "none")
    /\ cbCalls' = <<>>
    /\ UNCHANGED _running
    /\ UNCHANGED ncalls
    /\ UNCHANGED storeVars
    /\ UNCHANGED listenVars

\* _thread_worker, lines 44-46: the test of the while loop, then Queue.get
\* on the queue that self._queue is at that time
WorkerHead(i) ==
    /\ i \in 1..Len(threads)
    /\ threads[i].kind = "worker"
    /\ threads[i].pc = "head"
    /\ threads' = IF _running
                  THEN [threads EXCEPT ![i].pc = "blocked", ![i].q = Len(_queue)]
                  ELSE [threads EXCEPT ![i].pc = "done"]
    /\ lastOp' = Op("_thread_worker.head", <<>>, i, "none")
    /\ cbCalls' = <<>>
    /\ UNCHANGED <<_running, _queue>>
    /\ UNCHANGED ncalls
    /\ UNCHANGED storeVars
    /\ UNCHANGED listenVars

\* _thread_worker, lines 46-53: Queue.get returns the oldest item; a dict
\* with a cmd goes to the callback, whose exceptions are logged
WorkerGet(i) ==
    /\ i \in 1..Len(threads)
    /\ threads[i].kind = "worker"
    /\ threads[i].pc = "blocked"
    /\ LET q == threads[i].q
           packet == _queue[q].items[_queue[q].head + 1]
       IN  /\ _queue[q].head < Len(_queue[q].items)
           /\ _queue' = [_queue EXCEPT ![q].head = @ + 1,
                                       ![q].passed = IF IsCommandPacket(packet)
                                                     THEN Append(@, packet) ELSE @]
           /\ lastOp' = Op("_thread_worker.get", packet, i, "none")
    /\ threads' = [threads EXCEPT ![i].pc = "head", ![i].q = 0]
    /\ cbCalls' = <<>>
    /\ UNCHANGED _running
    /\ UNCHANGED ncalls
    /\ UNCHANGED storeVars
    /\ UNCHANGED listenVars

NextThreaded ==
    \/ ThreadedListen
    \/ ThreadedStop
    \/ \E i \in 1..(2 * MaxThreadListens) : ListenThreadHead(i)
    \/ \E i \in 1..(2 * MaxThreadListens) : \E outcome \in ThreadOutcomes :
           ListenThreadPoll(i, outcome)
    \/ \E i \in 1..(2 * MaxThreadListens) : ListenThreadWake(i)
    \/ \E i \in 1..(2 * MaxThreadListens) : ListenThreadExit(i)
    \/ \E i \in 1..(2 * MaxThreadListens) : WorkerHead(i)
    \/ \E i \in 1..(2 * MaxThreadListens) : WorkerGet(i)

\* The object as constructed (lines 21-40), with dim_adj 1
InitThreaded ==
    /\ dim_adj = Adj(1, 1)
    /\ devices = <<>>
    /\ setTasks = <<>>
    /\ running = FALSE
    /\ listenTasks = <<>>
    /\ tasks = 0
    /\ cbCalls = <<>>
    /\ cbListen = <<>>
    /\ cbRaised = <<>>
    /\ received = <<>>
    /\ ncalls = 0
    /\ _running = FALSE
    /\ _queue = <<>>
    /\ threads = <<>>
    /\ lastOp = Op("init", <<>>, 0, "none")

SpecThreaded == InitThreaded /\ [][NextThreaded]_vars

(***************************************************************************)
(* Properties of the threaded client (SpecThreaded)                        *)
(***************************************************************************)
\* The items that _thread_worker passes on: the dicts with a cmd, in order
RECURSIVE CommandItems(_)
CommandItems(items) ==
    IF items = <<>> THEN <<>>
    ELSE (IF IsCommandPacket(Head(items)) THEN <<Head(items)>> ELSE <<>>)
         \o CommandItems(Tail(items))

\* C39: a thread that comes to the test of its loop after stop() leaves the
\* loop (the listen thread to put the empty item, the worker to end); the
\* callback gets the command packets taken from a queue in the order they were
\* put on it; the empty item is never passed to the callback.
C39_ThreadedShutdown ==
    [][ /\ \A i \in 1..Len(threads) :
               (/\ threads[i].stopped
                /\ threads[i].pc = "head"
                /\ threads'[i].pc # "head") => threads'[i].pc \in {"exit", "done"}
        /\ \A q \in 1..Len(_queue') :
               /\ _queue'[q].passed
                      = CommandItems(SubSeq(_queue'[q].items, 1, _queue'[q].head))
               /\ \A k \in 1..Len(_queue'[q].passed) :
                      _queue'[q].passed[k] # Sentinel ]_vars

=============================================================================
